---- MODULE Spec2Model ----
(***************************************************************************)
(* Model of the gift-guide grid widget (src/assets/gift-guide-grid.js).    *)
(* The file holds the class GiftGuideGridComponent twice; the second       *)
(* definition (lines 760-1799) is the first one plus the cart drawer, and  *)
(* it is the one modelled here.                                            *)
(*                                                                         *)
(* Strings whose characters the code inspects (option values) are          *)
(* sequences of one-character strings; option names are only compared as   *)
(* a whole and stay TLA+ strings.  null / undefined / "" (all falsy, and   *)
(* never equal to a real option value) are the empty sequence NoValue.     *)
(***************************************************************************)
EXTENDS Integers, Sequences, FiniteSets, Bags, TLC

\* ------------------------------------------------------------------ bounds
MaxVariants == 3       \* variants per generated product
MaxOptions  == 2       \* options per generated product (the code reads option1..option3)
MaxPending  == 1       \* requests in flight when a click may still start another
MaxCart     == 1       \* items the storefront cart holds before add clicks stop

\* --------------------------------------------------------- JS string model
NoValue == << >>

UpperCase == <<"A","B","C","D","E","F","G","H","I","J","K","L","M",
               "N","O","P","Q","R","S","T","U","V","W","X","Y","Z">>
LowerCase == <<"a","b","c","d","e","f","g","h","i","j","k","l","m",
               "n","o","p","q","r","s","t","u","v","w","x","y","z">>

\* String.prototype.toLowerCase, character by character
toLowerCase(s) ==
    [i \in 1..Len(s) |->
        IF \E k \in 1..26 : UpperCase[k] = s[i]
        THEN LowerCase[CHOOSE k \in 1..26 : UpperCase[k] = s[i]]
        ELSE s[i]]

\* String.prototype.includes: sub occurs as a contiguous run of s
includes(s, sub) ==
    \E i \in 0..(Len(s) - Len(sub)) : SubSeq(s, i + 1, i + Len(sub)) = sub

\* JS truthiness of an option value (null, undefined and "" are falsy)
Truthy(v) == v # NoValue

\* ------------------------------------------------------------ data model
NoProduct  == [none |-> "product"]    \* this.currentProduct = null
NoVariants == << >>                   \* product JSON without a variants array (hasVariants is FALSE)
NoVariant  == [none |-> "variant"]    \* Array.prototype.find found nothing

\* variant[`option${index + 1}`]
OptionOf(variant, index) ==
    CASE index = 1 -> variant.option1
      [] index = 2 -> variant.option2
      [] index = 3 -> variant.option3
      [] OTHER     -> NoValue

\* keys the code can write into this.selectedVariants
FallbackName(index) ==
    CASE index = 1 -> "Option 1"
      [] index = 2 -> "Option 2"
      [] OTHER     -> "Option 3"

OptionNames == <<"Color", "Size", "Material">>
Keys == {OptionNames[i] : i \in 1..3} \cup {FallbackName(i) : i \in 1..3}

\* this.selectedVariants = {}
EmptySelection == [k \in Keys |-> NoValue]

HasVariantsArray(product) == product.hasVariants

\* the option list the resolver walks: options_with_values when it is
\* non-empty, else options when it is non-empty, else nothing
UsesOptionsWithValues(product) == Len(product.options_with_values) > 0
UsesLegacyOptions(product) ==
    /\ ~UsesOptionsWithValues(product)
    /\ Len(product.options) > 0
ExposedOptions(product) ==
    IF UsesOptionsWithValues(product) THEN product.options_with_values
    ELSE product.options

\* options.findIndex(opt => opt.name === optionName), 0 for -1
RECURSIVE FindOptionFrom(_, _, _)
FindOptionFrom(options, optionName, i) ==
    IF i > Len(options) THEN 0
    ELSE IF options[i].name = optionName THEN i
    ELSE FindOptionFrom(options, optionName, i + 1)
findIndex(options, optionName) == FindOptionFrom(options, optionName, 1)

\* ------------------------------------------------------- variant resolver
\* mutant: an option without a selected value no longer matches anything
MatchesSelection_strict(product, selected, variant) ==
    /\ UsesOptionsWithValues(product) \/ UsesLegacyOptions(product)
    /\ \A index \in 1..Len(ExposedOptions(product)) :
          OptionOf(variant, index) = selected[ExposedOptions(product)[index].name]

\* the callback of variants.find in getSelectedVariant: does this variant
\* equal the selection in every option slot (no selected value = wildcard)
MatchesSelection(product, selected, variant) ==
    IF UsesOptionsWithValues(product) THEN
        \A index \in 1..Len(product.options_with_values) :
            LET selectedValue == selected[product.options_with_values[index].name]
            IN  ~Truthy(selectedValue) \/ OptionOf(variant, index) = selectedValue
    ELSE IF UsesLegacyOptions(product) THEN
        \A index \in 1..Len(product.options) :
            LET selectedValue == selected[product.options[index].name]
            IN  ~Truthy(selectedValue) \/ OptionOf(variant, index) = selectedValue
    ELSE FALSE

\* Array.prototype.find: position of the first matching variant, 0 if none
RECURSIVE FindVariantFrom(_, _, _)
FindVariantFrom(product, selected, i) ==
    IF i > Len(product.variants) THEN 0
    ELSE IF MatchesSelection(product, selected, product.variants[i]) THEN i
    ELSE FindVariantFrom(product, selected, i + 1)

getSelectedVariantIndex(product, selected) ==
    IF product = NoProduct THEN 0
    ELSE IF ~HasVariantsArray(product) THEN 0
    ELSE FindVariantFrom(product, selected, 1)

getSelectedVariant(product, selected) ==
    LET i == getSelectedVariantIndex(product, selected)
    IN  IF i = 0 THEN NoVariant ELSE product.variants[i]

\* mutant: the option being checked is not skipped
CarriesValue_ownOptionToo(options, selected, variant, optionName, optionValue) ==
    LET optionIndex == findIndex(options, optionName)
    IN  /\ optionIndex # 0
        /\ OptionOf(variant, optionIndex) = optionValue
        /\ \A index \in 1..Len(options) :
              \/ ~Truthy(selected[options[index].name])
              \/ OptionOf(variant, index) = selected[options[index].name]

\* the callback of variants.some in isVariantAvailable
CarriesValue(options, selected, variant, optionName, optionValue) ==
    LET optionIndex == findIndex(options, optionName)
    IN  /\ optionIndex # 0
        /\ OptionOf(variant, optionIndex) = optionValue
        /\ \A index \in 1..Len(options) :
              \/ options[index].name = optionName
              \/ ~Truthy(selected[options[index].name])
              \/ OptionOf(variant, index) = selected[options[index].name]

isVariantAvailable(product, selected, optionName, optionValue) ==
    IF product = NoProduct THEN FALSE
    ELSE IF ~HasVariantsArray(product) THEN FALSE
    ELSE IF UsesOptionsWithValues(product) \/ UsesLegacyOptions(product) THEN
        \E i \in 1..Len(product.variants) :
            CarriesValue(ExposedOptions(product), selected,
                         product.variants[i], optionName, optionValue)
    ELSE FALSE

\* ------------------------------------------------------ initial selection
\* variants.find(v => v.available) || variants[0]
RECURSIVE FindAvailableFrom(_, _)
FindAvailableFrom(variants, i) ==
    IF i > Len(variants) THEN 1
    ELSE IF variants[i].available THEN i
    ELSE FindAvailableFrom(variants, i + 1)
\* mutant: the initial variant is the first one, in stock or not
firstAvailableVariant_first(product) ==
    product.variants[1]

firstAvailableVariant(product) ==
    product.variants[FindAvailableFrom(product.variants, 1)]

\* mutant: only the first option gets its initial value
SelectFrom_firstOnly(options, variant, selected, i) ==
    IF i > Len(options) \/ ~Truthy(OptionOf(variant, i)) THEN selected
    ELSE [selected EXCEPT ![options[i].name] = OptionOf(variant, i)]

\* options_with_values.forEach((option, index) => ...) from position i on
RECURSIVE SelectFrom(_, _, _, _)
SelectFrom(options, variant, selected, i) ==
    IF i > Len(options) THEN selected
    ELSE LET optionValue == OptionOf(variant, i)
         IN  SelectFrom(options, variant,
                        IF Truthy(optionValue)
                        THEN [selected EXCEPT ![options[i].name] = optionValue]
                        ELSE selected,
                        i + 1)

\* mutant: the legacy branch stops after option1
SelectLegacyFrom_firstOnly(options, variant, selected, i) ==
    IF i > 3 \/ ~Truthy(OptionOf(variant, i)) THEN selected
    ELSE [selected EXCEPT ![IF i <= Len(options) THEN options[i].name ELSE FallbackName(i)]
                              = OptionOf(variant, i)]

\* the three statements of the legacy branch, slot i
LegacyKey(options, i) ==
    IF i <= Len(options) THEN options[i].name ELSE FallbackName(i)
RECURSIVE SelectLegacyFrom(_, _, _, _)
SelectLegacyFrom(options, variant, selected, i) ==
    IF i > 3 THEN selected
    ELSE SelectLegacyFrom(options, variant,
                          IF Truthy(OptionOf(variant, i))
                          THEN [selected EXCEPT ![LegacyKey(options, i)] = OptionOf(variant, i)]
                          ELSE selected,
                          i + 1)

initializeVariants(product) ==
    IF HasVariantsArray(product) /\ Len(product.variants) > 0 THEN
        IF UsesOptionsWithValues(product) THEN
            SelectFrom(product.options_with_values, firstAvailableVariant(product),
                       EmptySelection, 1)
        ELSE IF UsesLegacyOptions(product) THEN
            SelectLegacyFrom(product.options, firstAvailableVariant(product),
                             EmptySelection, 1)
        ELSE EmptySelection
    ELSE EmptySelection

\* ---------------------------------------------------------- popup renderer
NoRender == [none |-> "render"]       \* popupContent before the first render

\* one <button class="...variant-option"> of the popup
Button(optionName, value, selected, isAvailable) ==
    [option   |-> optionName,
     value    |-> value,
     selected |-> selected[optionName] = value,
     disabled |-> ~isAvailable]

\* option.values.map(...) of one option of the options_with_values schema:
\* availability is the flag the storefront sent with the value
ValueButtons(option, selected) ==
    [j \in 1..Len(option.values) |->
        Button(option.name, option.values[j].name, selected,
               option.values[j].available # FALSE)]

\* [...new Set(variants.map(v => v[`option${index + 1}`]).filter(Boolean))]
RECURSIVE DistinctValuesFrom(_, _, _, _)
DistinctValuesFrom(variants, index, i, acc) ==
    IF i > Len(variants) THEN acc
    ELSE LET v == OptionOf(variants[i], index)
         IN  DistinctValuesFrom(variants, index, i + 1,
                 IF Truthy(v) /\ ~(\E k \in 1..Len(acc) : acc[k] = v)
                 THEN Append(acc, v) ELSE acc)

\* mutant: legacy buttons are never disabled
LegacyButtons_enabled(product, selected, index) ==
    LET optionName   == product.options[index].name
        optionValues == DistinctValuesFrom(product.variants, index, 1, << >>)
    IN  [j \in 1..Len(optionValues) |->
            Button(optionName, optionValues[j], selected, TRUE)]

\* optionValues.map(...) of one option of the legacy schema: availability
\* is the resolver's check under the current selection
LegacyButtons(product, selected, index) ==
    LET optionName   == product.options[index].name
        optionValues == DistinctValuesFrom(product.variants, index, 1, << >>)
    IN  [j \in 1..Len(optionValues) |->
            Button(optionName, optionValues[j], selected,
                   isVariantAvailable(product, selected, optionName, optionValues[j]))]

RECURSIVE renderVariantOptionsWithValuesFrom(_, _, _)
renderVariantOptionsWithValuesFrom(product, selected, index) ==
    IF index > Len(product.options_with_values) THEN << >>
    ELSE ValueButtons(product.options_with_values[index], selected)
         \o renderVariantOptionsWithValuesFrom(product, selected, index + 1)
renderVariantOptionsWithValues(product, selected) ==
    renderVariantOptionsWithValuesFrom(product, selected, 1)

RECURSIVE renderVariantOptionsLegacyFrom(_, _, _)
renderVariantOptionsLegacyFrom(product, selected, index) ==
    IF index > Len(product.options) THEN << >>
    ELSE LegacyButtons(product, selected, index)
         \o renderVariantOptionsLegacyFrom(product, selected, index + 1)
renderVariantOptionsLegacy(product, selected) ==
    renderVariantOptionsLegacyFrom(product, selected, 1)

renderVariantOptions(product, selected) ==
    IF UsesOptionsWithValues(product) THEN renderVariantOptionsWithValues(product, selected)
    ELSE IF UsesLegacyOptions(product) THEN renderVariantOptionsLegacy(product, selected)
    ELSE << >>

\* -------------------------------------------------------------------- price
\* the decimal digits of a whole number, as Number's conversion to text
\* writes them
Digits == <<"0", "1", "2", "3", "4", "5", "6", "7", "8", "9">>

RECURSIVE Decimal(_)
Decimal(n) ==
    IF n < 10 THEN << Digits[n + 1] >>
    ELSE Decimal(n \div 10) \o << Digits[(n % 10) + 1] >>

\* en-US grouping of the whole dollars: a comma before every group of
\* three digits
RECURSIVE Grouped(_)
Grouped(n) ==
    IF n < 1000 THEN Decimal(n)
    ELSE Grouped(n \div 1000) \o << ",", Digits[((n \div 100) % 10) + 1],
                                     Digits[((n \div 10) % 10) + 1], Digits[(n % 10) + 1] >>

\* Intl.NumberFormat('en-US', {style: 'currency', currency: 'USD'}) on an
\* amount of whole cents: "$", the grouped dollars, ".", two digits
formatCurrency(cents) ==
    << "$" >> \o Grouped(cents \div 100)
             \o << ".", Digits[((cents \div 10) % 10) + 1], Digits[(cents % 10) + 1] >>

\* mutant: every price is taken to be in cents
formatPrice_alwaysCents(price) ==
    IF price = 0 THEN NoValue ELSE formatCurrency(price)

\* formatPrice on a whole number: the empty string for 0; above 1000 the
\* price is taken to be in cents, else in dollars
formatPrice(price) ==
    IF price = 0 THEN NoValue
    ELSE LET priceInCents == IF price > 1000 THEN price ELSE price * 100
         IN  formatCurrency(priceInCents)

\* renderVariantOptionsLegacy calls variants.map: a TypeError when the
\* product has legacy options and no variants array; the popup keeps its
\* previous content
RenderThrows(product) == UsesLegacyOptions(product) /\ ~HasVariantsArray(product)

\* ------------------------------------------------------------------- image
\* image URLs are opaque: a tuple naming whose image it is; none is << >>
NoImage == << >>
PlaceholderImage == << "placeholder" >>

\* Array.prototype.find over product.images by id: position, 0 if none
RECURSIVE FindImageFrom(_, _, _)
FindImageFrom(images, id, i) ==
    IF i > Len(images) THEN 0
    ELSE IF images[i].id = id THEN i
    ELSE FindImageFrom(images, id, i + 1)

\* mutant: the product's featured image wins over the variant's images
getProductImage_featuredFirst(product, selectedVariant) ==
    LET byId == IF selectedVariant # NoVariant /\ selectedVariant.featured_image_id # 0
                THEN FindImageFrom(product.images, selectedVariant.featured_image_id, 1)
                ELSE 0
    IN  IF Truthy(product.featured_image) THEN product.featured_image
        ELSE IF selectedVariant # NoVariant /\ Truthy(selectedVariant.featured_image)
        THEN selectedVariant.featured_image
        ELSE IF byId # 0 THEN product.images[byId].src
        ELSE IF Len(product.images) > 0 THEN product.images[1].src
        ELSE PlaceholderImage

\* getProductImage: the variant's own image, else the product image with
\* the variant's image id, else the product's featured image, else the
\* first gallery image, else the placeholder
getProductImage(product, selectedVariant) ==
    LET byId == IF selectedVariant # NoVariant /\ selectedVariant.featured_image_id # 0
                THEN FindImageFrom(product.images, selectedVariant.featured_image_id, 1)
                ELSE 0
    IN  IF selectedVariant # NoVariant /\ Truthy(selectedVariant.featured_image)
        THEN selectedVariant.featured_image
        ELSE IF byId # 0 THEN product.images[byId].src
        ELSE IF Truthy(product.featured_image) THEN product.featured_image
        ELSE IF Len(product.images) > 0 THEN product.images[1].src
        ELSE PlaceholderImage

\* the popup body renderProductPopup writes: the image, the price, the add-to-cart
\* button's data-variant-id and disabled attribute, and the option buttons
renderProductPopup(product, selected) ==
    LET selectedVariant == getSelectedVariant(product, selected)
    IN  [product   |-> product,
         image     |-> getProductImage(product, selectedVariant),
         price     |-> formatPrice(IF selectedVariant # NoVariant /\ selectedVariant.price # 0
                                   THEN selectedVariant.price ELSE product.price),
         variantId |-> IF selectedVariant = NoVariant THEN 0 ELSE selectedVariant.id,
         addToCartDisabled |-> IF selectedVariant = NoVariant THEN TRUE
                               ELSE ~selectedVariant.available,
         buttons   |-> renderVariantOptions(product, selected)]

\* handleVariantSelection moves the class 'selected' inside the clicked
\* button's option group before it re-renders
MarkSelected(popup, optionName, optionValue) ==
    [popup EXCEPT !.buttons =
        [j \in 1..Len(popup.buttons) |->
            IF popup.buttons[j].option = optionName
            THEN [popup.buttons[j] EXCEPT !.selected = (popup.buttons[j].value = optionValue)]
            ELSE popup.buttons[j]]]

\* -------------------------------------------------------------- bundle rule
Str_black  == <<"b","l","a","c","k">>
Str_medium == <<"m","e","d","i","u","m">>
Str_m      == <<"m">>

\* [variant.option1, variant.option2, variant.option3].filter(Boolean)
allOptions(variant) ==
    SelectSeq(<<variant.option1, variant.option2, variant.option3>>, Truthy)

\* mutant: the option values are compared without lower-casing them
shouldAutoAddDarkWinterJacket_caseSensitive(variant) ==
    LET all == allOptions(variant)
    IN  /\ \E i \in 1..Len(all) : includes(all[i], Str_black)
        /\ \E i \in 1..Len(all) : includes(all[i], Str_medium) \/ all[i] = Str_m

\* mutant: the colour test is dropped
shouldAutoAddDarkWinterJacket_anyColour(variant) ==
    LET all == allOptions(variant)
    IN  \E i \in 1..Len(all) :
            \/ includes(toLowerCase(all[i]), Str_medium)
            \/ toLowerCase(all[i]) = Str_m

shouldAutoAddDarkWinterJacket(variant) ==
    LET all == allOptions(variant)
        hasBlack  == \E i \in 1..Len(all) : includes(toLowerCase(all[i]), Str_black)
        hasMedium == \E i \in 1..Len(all) :
                        \/ includes(toLowerCase(all[i]), Str_medium)
                        \/ toLowerCase(all[i]) = Str_m
    IN  hasBlack /\ hasMedium

darkWinterJacketVariantId == "52160865337711"

\* ------------------------------------------------------------------ inputs
\* Products are what GET /products/{handle}.js answers with.  The fields
\* kept are the ones the widget reads for selection, rendering and adding.
Black      == <<"B","l","a","c","k">>
BLACK      == <<"B","L","A","C","K">>
JetBlack   == <<"J","e","t"," ","b","l","a","c","k">>
Navy       == <<"N","a","v","y">>
Medium     == <<"M","e","d","i","u","m">>
MEDIUM     == <<"M","E","D","I","U","M">>
MediumTall == <<"M","e","d","i","u","m"," ","T","a","l","l">>
LetterM    == <<"M">>
Letterm    == <<"m">>
Large      == <<"L","a","r","g","e">>
Wool       == <<"W","o","o","l">>

\* price in cents of every variant the storefront sells and of every line
\* the cart holds
UnitPrice == 2500

Variant(id, available, o1, o2, o3) ==
    [id |-> id, available |-> available, price |-> UnitPrice,
     featured_image |-> << "variant", id >>, featured_image_id |-> 0,
     option1 |-> o1, option2 |-> o2, option3 |-> o3]

\* legacy options: one {name} object per option
Options(names) == [i \in 1..Len(names) |-> [name |-> names[i]]]

\* options_with_values as the storefront builds it from the variants: the
\* values of a slot in order of first appearance, each flagged available
\* when some available variant carries it
OptionsWithValues(names, variants) ==
    [i \in 1..Len(names) |->
        [name   |-> names[i],
         values |-> LET vals == DistinctValuesFrom(variants, i, 1, << >>)
                    IN  [j \in 1..Len(vals) |->
                            [name      |-> vals[j],
                             available |-> \E k \in 1..Len(variants) :
                                              /\ OptionOf(variants[k], i) = vals[j]
                                              /\ variants[k].available]]]]

Product(handle, schema, names, hasVariants, variants) ==
    [handle              |-> handle,
     options_with_values |-> IF schema = "options_with_values"
                             THEN OptionsWithValues(names, variants) ELSE << >>,
     options             |-> IF schema = "none" THEN << >> ELSE Options(names),
     hasVariants         |-> hasVariants,
     variants            |-> variants,
     price               |-> UnitPrice,
     featured_image      |-> << "product", handle >>,
     images              |-> << >>]

\* the values a generated variant takes in each slot
SlotValues(i) ==
    CASE i = 1 -> {Black, Navy}
      [] i = 2 -> {Medium, Large}
      [] OTHER -> {Wool}

\* ids of generated variants are their positions
Renumber(variants) ==
    [i \in 1..Len(variants) |->
        [variants[i] EXCEPT !.id = i, !.featured_image = << "variant", i >>]]

\* every variant shape over n option slots, a slot possibly left null
AnyVariants(n) ==
    { Variant(0, a, o1, o2, o3) :
        a  \in BOOLEAN,
        o1 \in (IF n >= 1 THEN SlotValues(1) \cup {NoValue} ELSE {NoValue}),
        o2 \in (IF n >= 2 THEN SlotValues(2) \cup {NoValue} ELSE {NoValue}),
        o3 \in (IF n >= 3 THEN SlotValues(3) \cup {NoValue} ELSE {NoValue}) }

\* variants as the storefront keeps them: a value in every exposed slot
FullVariants(n) ==
    { v \in AnyVariants(n) : \A i \in 1..n : Truthy(OptionOf(v, i)) }

SeqsUpTo(S, len) == UNION { [1..k -> S] : k \in 0..len }

SameOptions(v, w) ==
    /\ v.option1 = w.option1
    /\ v.option2 = w.option2
    /\ v.option3 = w.option3

\* no two variants of a storefront product share an option combination
DistinctCombinations(variants) ==
    \A i, j \in 1..Len(variants) : i # j => ~SameOptions(variants[i], variants[j])

Schemas == {"options_with_values", "legacy"}
FirstNames(n) == SubSeq(OptionNames, 1, n)

\* products as the storefront serves them
StorefrontProducts ==
    UNION { { Product("gen", schema, FirstNames(n), TRUE, Renumber(vs)) :
                schema \in Schemas,
                vs \in { s \in SeqsUpTo(FullVariants(n), MaxVariants) : DistinctCombinations(s) } } :
            n \in 1..MaxOptions }
    \cup { Product("gen", schema, FirstNames(n), FALSE, NoVariants) : schema \in Schemas, n \in 1..MaxOptions }
    \cup { Product("gen", "none", << >>, TRUE, Renumber(vs)) : vs \in SeqsUpTo(AnyVariants(0), 1) }

AnySelections ==
    { [EmptySelection EXCEPT ![OptionNames[1]] = c, ![OptionNames[2]] = z, ![OptionNames[3]] = m] :
        c \in SlotValues(1) \cup {NoValue}, z \in SlotValues(2) \cup {NoValue},
        m \in SlotValues(3) \cup {NoValue} }
AnyValues == SlotValues(1) \cup SlotValues(2) \cup SlotValues(3)

\* the products behind the hotspots of the page whose add-to-cart flow is
\* explored
Tee ==
    Product("gift-tee", "options_with_values", <<"Color", "Size">>, TRUE,
            << Variant(101, TRUE,  Black, Medium, NoValue),
               Variant(102, TRUE,  Navy,  Medium, NoValue),
               Variant(103, TRUE,  Navy,  Large,  NoValue) >>)
Cap ==
    Product("gift-cap", "legacy", <<"Size", "Color">>, TRUE,
            << Variant(201, TRUE,  LetterM, BLACK, NoValue),
               Variant(202, FALSE, LetterM, Navy,  NoValue) >>)
Card ==
    Product("gift-card", "none", << >>, TRUE,
            << Variant(301, TRUE, NoValue, NoValue, NoValue) >>)
Ghost ==
    Product("gift-ghost", "options_with_values", <<"Color">>, FALSE, NoVariants)

Hotspots == {Tee, Cap, Card, Ghost}

\* ------------------------------------------------------------------- state
VARIABLES
    currentProduct,     \* this.currentProduct
    selectedVariants,   \* this.selectedVariants
    popupContent,       \* what renderProductPopup last wrote into refs.popupContent
    popupActive,        \* refs.popupOverlay carries the class 'active'
    bodyOverflow,       \* document.body.style.overflow
    cartDrawer,         \* this.cartDrawer: the drawer element, once created
    pending,            \* fetch calls awaiting their response (a bag of requests)
    toasts,             \* the toasts the last step put on screen, in order
    serverCart,         \* item_count of the storefront's cart
    cartUpdate,         \* the CartUpdateEvent the last step dispatched, if any
    cartIcon,           \* what the last step wrote into the header's .cart-icon-bubble
    lastOp              \* history: the handler or continuation that ran last

vars == <<currentProduct, selectedVariants, popupContent, popupActive, bodyOverflow,
          cartDrawer, pending, toasts, serverCart, cartUpdate, cartIcon, lastOp>>

NoDrawer  == [none |-> "drawer"]
NoEvent   == [none |-> "event"]
NoIcon    == [none |-> "icon"]

MsgAdded  == "Product added to cart!"
MsgBundle == "Dark Winter Jacket automatically added to cart!"
MsgFailed == "Failed to add product to cart"

\* the JSON GET /cart.js answers with
Cart(itemCount) == [item_count |-> itemCount, total_price |-> itemCount * UnitPrice]

Request(kind, product, variant) == [kind |-> kind, product |-> product, variant |-> variant]

NoRequest == [kind |-> "none", product |-> NoProduct, variant |-> NoVariant]
Op(name, request) == [name |-> name, request |-> request]

\* the response to request r arrives; the continuation issues requests
Settle(r, requests) == (pending (-) SetToBag({r})) (+) requests
Issue(r) == SetToBag({r})
InFlight == BagCardinality(pending)

\* how many requests of a kind are in flight
Count(bag, kind) ==
    BagCardinality([r \in { q \in BagToSet(bag) : q.kind = kind } |-> CopiesIn(r, bag)])

\* the GET of /products/{handle}.js a hotspot click issues. History kept
\* with it: behind, how many product fetches were already in flight at the
\* click, and overtaken, whether the response to another product fetch
\* has been stored while this one was in flight
ProductRequest(product, behind) ==
    [kind |-> "product", product |-> product, variant |-> NoVariant,
     behind |-> behind, overtaken |-> FALSE]

\* a product response has been stored: every product fetch still in flight
\* has been overtaken by it
Overtaken(r) == IF r.kind = "product" THEN [r EXCEPT !.overtaken = TRUE] ELSE r
Overtake(requests) == BagOfAll(Overtaken, requests)

Init ==
    /\ currentProduct = NoProduct
    /\ selectedVariants = EmptySelection
    /\ popupContent = NoRender
    /\ popupActive = FALSE
    /\ bodyOverflow = ""
    /\ cartDrawer = NoDrawer
    /\ pending = EmptyBag
    /\ toasts = << >>
    /\ serverCart = 0
    /\ cartUpdate = NoEvent
    /\ cartIcon = NoIcon
    /\ lastOp = Op("constructor", NoRequest)

\* ------------------------------------------------------------ price, drawer
\* the element createCartDrawer builds and appends to document.body, which
\* holds `elements` drawer elements already: no items, empty message
\* hidden, subtotal "$0.00", checkout disabled
createCartDrawer(elements) ==
    [element          |-> elements + 1,
     active           |-> FALSE,
     itemsDisplay     |-> "",
     emptyDisplay     |-> "none",
     checkoutDisabled |-> TRUE,
     items            |-> 0,
     subtotal         |-> <<"$", "0", ".", "0", "0">>]

\* mutant: the branch for a cart with items forgets to enable checkout
updateCartDrawer_checkoutStaysDisabled(drawer, cart) ==
    IF cart.item_count = 0 THEN
        [drawer EXCEPT !.itemsDisplay = "none", !.emptyDisplay = "block",
                       !.checkoutDisabled = TRUE,
                       !.subtotal = formatPrice(cart.total_price)]
    ELSE
        [drawer EXCEPT !.itemsDisplay = "block", !.emptyDisplay = "none",
                       !.items = cart.item_count,
                       !.subtotal = formatPrice(cart.total_price)]

updateCartDrawer(drawer, cart) ==
    IF cart.item_count = 0 THEN
        [drawer EXCEPT !.itemsDisplay = "none", !.emptyDisplay = "block",
                       !.checkoutDisabled = TRUE,
                       !.subtotal = formatPrice(cart.total_price)]
    ELSE
        [drawer EXCEPT !.itemsDisplay = "block", !.emptyDisplay = "none",
                       !.checkoutDisabled = FALSE, !.items = cart.item_count,
                       !.subtotal = formatPrice(cart.total_price)]

\* ---------------------------------------------------------------- hotspots
\* mutant: the popup is opened without awaiting loadProduct
HotspotClick_opensAtOnce(product, limit) ==
    /\ InFlight < limit
    /\ pending' = pending (+) Issue(ProductRequest(product, Count(pending, "product")))
    /\ popupActive' = TRUE
    /\ bodyOverflow' = "hidden"
    /\ lastOp' = Op("handleHotspotClick", NoRequest)
    /\ toasts' = << >>
    /\ cartUpdate' = NoEvent
    /\ cartIcon' = NoIcon
    /\ UNCHANGED <<currentProduct, selectedVariants, popupContent, cartDrawer, serverCart>>

\* handleHotspotClick on a hotspot that names a product: loadProduct issues
\* GET /products/{handle}.js and awaits it
\* (explored while fewer than `limit` requests are in flight)
HotspotClick(product, limit) ==
    /\ InFlight < limit
    /\ pending' = pending (+) Issue(ProductRequest(product, Count(pending, "product")))
    /\ lastOp' = Op("handleHotspotClick", NoRequest)
    /\ toasts' = << >>
    /\ cartUpdate' = NoEvent
    /\ cartIcon' = NoIcon
    /\ UNCHANGED <<currentProduct, selectedVariants, popupContent, popupActive, bodyOverflow, cartDrawer, serverCart>>

handleHotspotClick(product) == HotspotClick(product, MaxPending)

\* mutant: the early return is missing its return, the popup is opened on
\* whatever it holds
handleHotspotClickNoIdentifier_opens ==
    /\ popupActive' = TRUE
    /\ bodyOverflow' = "hidden"
    /\ lastOp' = Op("handleHotspotClick:noIdentifier", NoRequest)
    /\ toasts' = << >>
    /\ cartUpdate' = NoEvent
    /\ cartIcon' = NoIcon
    /\ UNCHANGED <<currentProduct, selectedVariants, popupContent, cartDrawer, pending, serverCart>>

\* handleHotspotClick on a hotspot without data-product-handle and
\* data-product-id: warns and returns
handleHotspotClickNoIdentifier ==
    /\ lastOp' = Op("handleHotspotClick:noIdentifier", NoRequest)
    /\ toasts' = << >>
    /\ cartUpdate' = NoEvent
    /\ cartIcon' = NoIcon
    /\ UNCHANGED <<currentProduct, selectedVariants, popupContent, popupActive, bodyOverflow, cartDrawer, pending, serverCart>>

\* mutant: a response that another product response has overtaken is
\* dropped, so the latest stored product stays
loadProductOk_dropsStale(r) ==
    /\ BagIn(r, pending)
    /\ r.kind = "product"
    /\ LET product == IF r.overtaken THEN currentProduct ELSE r.product
           selected == IF r.overtaken THEN selectedVariants ELSE initializeVariants(product)
       IN  /\ currentProduct' = product
           /\ selectedVariants' = selected
           /\ popupContent' = IF r.overtaken \/ RenderThrows(product) THEN popupContent
                              ELSE renderProductPopup(product, selected)
    /\ popupActive' = TRUE
    /\ bodyOverflow' = "hidden"
    /\ pending' = Overtake(Settle(r, EmptyBag))
    /\ lastOp' = Op("loadProduct:ok", r)
    /\ toasts' = << >>
    /\ cartUpdate' = NoEvent
    /\ cartIcon' = NoIcon
    /\ UNCHANGED <<cartDrawer, serverCart>>

\* the product response arrives and parses: loadProduct stores the product,
\* initialises the selection and renders; handleHotspotClick opens the popup
loadProductOk(r) ==
    /\ BagIn(r, pending)
    /\ r.kind = "product"
    /\ LET product == r.product
           selected == initializeVariants(product)
       IN  /\ currentProduct' = product
           /\ selectedVariants' = selected
           /\ popupContent' = IF RenderThrows(product) THEN popupContent
                              ELSE renderProductPopup(product, selected)
    /\ popupActive' = TRUE
    /\ bodyOverflow' = "hidden"
    /\ pending' = Overtake(Settle(r, EmptyBag))
    /\ lastOp' = Op("loadProduct:ok", r)
    /\ toasts' = << >>
    /\ cartUpdate' = NoEvent
    /\ cartIcon' = NoIcon
    /\ UNCHANGED <<cartDrawer, serverCart>>

\* mutant: the failure path clears the stale product before opening
loadProductFailed_clears(r) ==
    /\ BagIn(r, pending)
    /\ r.kind = "product"
    /\ currentProduct' = NoProduct
    /\ selectedVariants' = EmptySelection
    /\ popupContent' = NoRender
    /\ popupActive' = TRUE
    /\ bodyOverflow' = "hidden"
    /\ pending' = Settle(r, EmptyBag)
    /\ lastOp' = Op("loadProduct:failed", r)
    /\ toasts' = << >>
    /\ cartUpdate' = NoEvent
    /\ cartIcon' = NoIcon
    /\ UNCHANGED <<cartDrawer, serverCart>>

\* the fetch rejects or answers non-2xx: loadProduct rethrows and
\* handleHotspotClick's catch opens the popup all the same
loadProductFailed(r) ==
    /\ BagIn(r, pending)
    /\ r.kind = "product"
    /\ popupActive' = TRUE
    /\ bodyOverflow' = "hidden"
    /\ pending' = Settle(r, EmptyBag)
    /\ lastOp' = Op("loadProduct:failed", r)
    /\ toasts' = << >>
    /\ cartUpdate' = NoEvent
    /\ cartIcon' = NoIcon
    /\ UNCHANGED <<currentProduct, selectedVariants, popupContent, cartDrawer, serverCart>>

\* ------------------------------------------------------------ option click
\* mutant: the click starts the selection afresh from the clicked entry
handleVariantSelection_clearsOthers(j) ==
    /\ popupContent # NoRender
    /\ j \in 1..Len(popupContent.buttons)
    /\ ~popupContent.buttons[j].disabled
    /\ LET optionName  == popupContent.buttons[j].option
           optionValue == popupContent.buttons[j].value
           selected    == [EmptySelection EXCEPT ![optionName] = optionValue]
       IN  /\ selectedVariants' = selected
           /\ popupContent' = IF RenderThrows(currentProduct)
                              THEN MarkSelected(popupContent, optionName, optionValue)
                              ELSE renderProductPopup(currentProduct, selected)
    /\ lastOp' = Op("handleVariantSelection", NoRequest)
    /\ toasts' = << >>
    /\ cartUpdate' = NoEvent
    /\ cartIcon' = NoIcon
    /\ UNCHANGED <<currentProduct, popupActive, bodyOverflow, cartDrawer, pending, serverCart>>

\* setupPopupEventListeners binds handleVariantSelection to the buttons
\* rendered without the class 'disabled'
handleVariantSelection(j) ==
    /\ popupContent # NoRender
    /\ j \in 1..Len(popupContent.buttons)
    /\ ~popupContent.buttons[j].disabled
    /\ LET optionName  == popupContent.buttons[j].option
           optionValue == popupContent.buttons[j].value
           selected    == [selectedVariants EXCEPT ![optionName] = optionValue]
       IN  /\ selectedVariants' = selected
           /\ popupContent' = IF RenderThrows(currentProduct)
                              THEN MarkSelected(popupContent, optionName, optionValue)
                              ELSE renderProductPopup(currentProduct, selected)
    /\ lastOp' = Op("handleVariantSelection", NoRequest)
    /\ toasts' = << >>
    /\ cartUpdate' = NoEvent
    /\ cartIcon' = NoIcon
    /\ UNCHANGED <<currentProduct, popupActive, bodyOverflow, cartDrawer, pending, serverCart>>

\* ------------------------------------------------------------- add to cart
\* mutant: the guard forgets the variant's availability
CanAdd_ignoresStock(product, selected) ==
    getSelectedVariant(product, selected) # NoVariant

\* the guard of handleAddToCart
CanAdd(product, selected) ==
    LET selectedVariant == getSelectedVariant(product, selected)
    IN  selectedVariant # NoVariant /\ selectedVariant.available

\* handleAddToCart up to its first await: resolve the variant, return when
\* there is none or it is unavailable, else POST it to /cart/add.js
\* (explored while fewer than `limit` requests are in flight)
AddToCartClick(limit) ==
    /\ IF CanAdd(currentProduct, selectedVariants)
       THEN /\ InFlight < limit
            /\ serverCart < MaxCart
            /\ pending' = pending (+) Issue(Request("add", NoProduct,
                                   getSelectedVariant(currentProduct, selectedVariants)))
       ELSE pending' = pending
    /\ lastOp' = Op("handleAddToCart", NoRequest)
    /\ toasts' = << >>
    /\ cartUpdate' = NoEvent
    /\ cartIcon' = NoIcon
    /\ UNCHANGED <<currentProduct, selectedVariants, popupContent, popupActive, bodyOverflow, cartDrawer, serverCart>>

handleAddToCart == AddToCartClick(MaxPending)

\* the GETs of /cart.js that addToCart fires without awaiting them:
\* updateCartCount (when document.querySelector finds the header's cart
\* bubble, which is up to the page) and triggerCartUpdate
CartFetches(hasIcon) ==
    (IF hasIcon THEN Issue(Request("cartCount", NoProduct, NoVariant)) ELSE EmptyBag)
    (+) Issue(Request("cartEvent", NoProduct, NoVariant))

DrawerActive(drawer) == drawer # NoDrawer /\ drawer.active

\* mutant: showCartDrawer builds a new element on every open
DrawerElement_alwaysCreated(drawer) ==
    createCartDrawer(IF drawer = NoDrawer THEN 0 ELSE drawer.element)

\* the head of showCartDrawer: the drawer element is created when
\* this.cartDrawer is not set, and is this.cartDrawer otherwise
DrawerElement(drawer) ==
    IF drawer = NoDrawer THEN createCartDrawer(0) ELSE drawer

\* the tail of handleAddToCart once the add calls are over: closePopup,
\* showSuccessMessage, and showCartDrawer up to its await (create the
\* drawer on first use, GET /cart.js)
FinishAdd(r, shown, requests) ==
    /\ popupActive' = FALSE
    /\ bodyOverflow' = ""
    /\ toasts' = Append(shown, MsgAdded)
    /\ cartDrawer' = DrawerElement(cartDrawer)
    /\ pending' = Settle(r, requests (+) Issue(Request("cartDrawer", NoProduct, NoVariant)))

\* mutant: the bundle POST is fired without awaiting it, the flow finishes
\* in the same step
addToCartOk_bundleNotAwaited(r, hasIcon) ==
    /\ BagIn(r, pending)
    /\ r.kind = "add"
    /\ serverCart' = serverCart + 1
    /\ FinishAdd(r, << >>,
                 CartFetches(hasIcon)
                 (+) (IF shouldAutoAddDarkWinterJacket(r.variant)
                      THEN Issue(Request("bundle", NoProduct, r.variant)) ELSE EmptyBag))
    /\ lastOp' = Op("addToCart:ok", r)
    /\ cartUpdate' = NoEvent
    /\ cartIcon' = NoIcon
    /\ UNCHANGED <<currentProduct, selectedVariants, popupContent>>

\* the primary POST answers 2xx: addToCart refreshes the cart count and
\* the cart event; handleAddToCart goes on to the bundle rule
addToCartOk(r, hasIcon) ==
    /\ BagIn(r, pending)
    /\ r.kind = "add"
    /\ serverCart' = serverCart + 1
    /\ IF shouldAutoAddDarkWinterJacket(r.variant)
       THEN /\ pending' = Settle(r, CartFetches(hasIcon)
                                     (+) Issue(Request("bundle", NoProduct, r.variant)))
            /\ toasts' = << >>
            /\ UNCHANGED <<popupActive, bodyOverflow, cartDrawer>>
       ELSE FinishAdd(r, << >>, CartFetches(hasIcon))
    /\ lastOp' = Op("addToCart:ok", r)
    /\ cartUpdate' = NoEvent
    /\ cartIcon' = NoIcon
    /\ UNCHANGED <<currentProduct, selectedVariants, popupContent>>

\* mutant: the failure is not rethrown, handleAddToCart carries on
addToCartFailed_swallowed(r) ==
    /\ BagIn(r, pending)
    /\ r.kind = "add"
    /\ FinishAdd(r, << >>, EmptyBag)
    /\ lastOp' = Op("addToCart:failed", r)
    /\ cartUpdate' = NoEvent
    /\ cartIcon' = NoIcon
    /\ UNCHANGED <<currentProduct, selectedVariants, popupContent, serverCart>>

\* mutant: the failed POST is sent again
addToCartFailed_retried(r) ==
    /\ BagIn(r, pending)
    /\ r.kind = "add"
    /\ pending' = Settle(r, Issue(r))
    /\ toasts' = << MsgFailed >>
    /\ lastOp' = Op("addToCart:failed", r)
    /\ cartUpdate' = NoEvent
    /\ cartIcon' = NoIcon
    /\ UNCHANGED <<currentProduct, selectedVariants, popupContent, popupActive, bodyOverflow, cartDrawer, serverCart>>

\* the primary POST rejects or answers non-2xx: addToCart rethrows and
\* handleAddToCart's catch shows the error toast
addToCartFailed(r) ==
    /\ BagIn(r, pending)
    /\ r.kind = "add"
    /\ pending' = Settle(r, EmptyBag)
    /\ toasts' = << MsgFailed >>
    /\ lastOp' = Op("addToCart:failed", r)
    /\ cartUpdate' = NoEvent
    /\ cartIcon' = NoIcon
    /\ UNCHANGED <<currentProduct, selectedVariants, popupContent, popupActive, bodyOverflow, cartDrawer, serverCart>>

\* the bundle POST answers 2xx: addDarkWinterJacketToCart shows its own
\* toast, then handleAddToCart finishes
addDarkWinterJacketToCartOk(r, hasIcon) ==
    /\ BagIn(r, pending)
    /\ r.kind = "bundle"
    /\ serverCart' = serverCart + 1
    /\ FinishAdd(r, << MsgBundle >>, CartFetches(hasIcon))
    /\ lastOp' = Op("addDarkWinterJacketToCart:ok", r)
    /\ cartUpdate' = NoEvent
    /\ cartIcon' = NoIcon
    /\ UNCHANGED <<currentProduct, selectedVariants, popupContent>>

\* mutant: the catch of addDarkWinterJacketToCart rethrows, so the failure
\* reaches handleAddToCart's catch
addDarkWinterJacketToCartFailed_surfaced(r) ==
    /\ BagIn(r, pending)
    /\ r.kind = "bundle"
    /\ pending' = Settle(r, EmptyBag)
    /\ toasts' = << MsgFailed >>
    /\ lastOp' = Op("addDarkWinterJacketToCart:failed", r)
    /\ cartUpdate' = NoEvent
    /\ cartIcon' = NoIcon
    /\ UNCHANGED <<currentProduct, selectedVariants, popupContent, popupActive, bodyOverflow, cartDrawer, serverCart>>

\* the bundle POST fails: addDarkWinterJacketToCart logs it and returns,
\* then handleAddToCart finishes
addDarkWinterJacketToCartFailed(r) ==
    /\ BagIn(r, pending)
    /\ r.kind = "bundle"
    /\ FinishAdd(r, << >>, EmptyBag)
    /\ lastOp' = Op("addDarkWinterJacketToCart:failed", r)
    /\ cartUpdate' = NoEvent
    /\ cartIcon' = NoIcon
    /\ UNCHANGED <<currentProduct, selectedVariants, popupContent, serverCart>>

\* ------------------------------------------------------------- cart drawer
\* loadCartData's GET /cart.js answers: updateCartDrawer renders it, then
\* showCartDrawer activates the drawer and locks page scroll
loadCartDataOk(r) ==
    /\ BagIn(r, pending)
    /\ r.kind = "cartDrawer"
    /\ cartDrawer' = [updateCartDrawer(cartDrawer, Cart(serverCart)) EXCEPT !.active = TRUE]
    /\ bodyOverflow' = "hidden"
    /\ pending' = Settle(r, EmptyBag)
    /\ lastOp' = Op("loadCartData:ok", r)
    /\ toasts' = << >>
    /\ cartUpdate' = NoEvent
    /\ cartIcon' = NoIcon
    /\ UNCHANGED <<currentProduct, selectedVariants, popupContent, popupActive, serverCart>>

\* loadCartData's fetch rejects or its body does not parse: logged;
\* showCartDrawer activates the drawer with whatever it showed before
loadCartDataFailed(r) ==
    /\ BagIn(r, pending)
    /\ r.kind = "cartDrawer"
    /\ cartDrawer' = [cartDrawer EXCEPT !.active = TRUE]
    /\ bodyOverflow' = "hidden"
    /\ pending' = Settle(r, EmptyBag)
    /\ lastOp' = Op("loadCartData:failed", r)
    /\ toasts' = << >>
    /\ cartUpdate' = NoEvent
    /\ cartIcon' = NoIcon
    /\ UNCHANGED <<currentProduct, selectedVariants, popupContent, popupActive, serverCart>>

\* the JSON body of a non-2xx answer of GET /cart.js: no item_count, no
\* items, no total_price
ErrorBody == [status |-> "error"]

\* updateCartDrawer on a body without item_count and items: the else
\* branch shows the item list and enables checkout, then cart.items.map
\* throws, before the rows and the subtotal are written
updateCartDrawerErrorBody(drawer) ==
    [drawer EXCEPT !.itemsDisplay = "block", !.emptyDisplay = "none",
                   !.checkoutDisabled = FALSE]

\* loadCartData's GET answers non-2xx with a JSON body: loadCartData does
\* not look at response.ok and hands the body to updateCartDrawer, whose
\* TypeError it logs; showCartDrawer activates the drawer
loadCartDataErrorBody(r) ==
    /\ BagIn(r, pending)
    /\ r.kind = "cartDrawer"
    /\ cartDrawer' = [updateCartDrawerErrorBody(cartDrawer) EXCEPT !.active = TRUE]
    /\ bodyOverflow' = "hidden"
    /\ pending' = Settle(r, EmptyBag)
    /\ lastOp' = Op("loadCartData:errorBody", r)
    /\ toasts' = << >>
    /\ cartUpdate' = NoEvent
    /\ cartIcon' = NoIcon
    /\ UNCHANGED <<currentProduct, selectedVariants, popupContent, popupActive, serverCart>>

\* the storefront's cart is emptied from outside the widget (the theme's
\* cart page, another tab): the next GET /cart.js answers item_count 0
cartEmptiedElsewhere ==
    /\ serverCart > 0
    /\ serverCart' = 0
    /\ lastOp' = Op("cart:emptied", NoRequest)
    /\ toasts' = << >>
    /\ cartUpdate' = NoEvent
    /\ cartIcon' = NoIcon
    /\ UNCHANGED <<currentProduct, selectedVariants, popupContent, popupActive, bodyOverflow, cartDrawer, pending>>

\* close button and overlay of the drawer
hideCartDrawer ==
    /\ cartDrawer # NoDrawer
    /\ cartDrawer' = [cartDrawer EXCEPT !.active = FALSE]
    /\ bodyOverflow' = ""
    /\ lastOp' = Op("hideCartDrawer", NoRequest)
    /\ toasts' = << >>
    /\ cartUpdate' = NoEvent
    /\ cartIcon' = NoIcon
    /\ UNCHANGED <<currentProduct, selectedVariants, popupContent, popupActive, pending, serverCart>>

\* ------------------------------------------- cart count and cart event
\* triggerCartUpdate's GET answers: a CartUpdateEvent carrying that cart
triggerCartUpdateOk(r) ==
    /\ BagIn(r, pending)
    /\ r.kind = "cartEvent"
    /\ cartUpdate' = [cart |-> Cart(serverCart), source |-> "gift-guide-grid",
                      itemCount |-> serverCart]
    /\ pending' = Settle(r, EmptyBag)
    /\ lastOp' = Op("triggerCartUpdate:ok", r)
    /\ toasts' = << >>
    /\ cartIcon' = NoIcon
    /\ UNCHANGED <<currentProduct, selectedVariants, popupContent, popupActive, bodyOverflow, cartDrawer, serverCart>>

\* updateCartCount's GET answers: the header bubble shows the item count
updateCartCountOk(r) ==
    /\ BagIn(r, pending)
    /\ r.kind = "cartCount"
    /\ cartIcon' = [count |-> serverCart,
                    display |-> IF serverCart > 0 THEN "block" ELSE "none"]
    /\ pending' = Settle(r, EmptyBag)
    /\ lastOp' = Op("updateCartCount:ok", r)
    /\ toasts' = << >>
    /\ cartUpdate' = NoEvent
    /\ UNCHANGED <<currentProduct, selectedVariants, popupContent, popupActive, bodyOverflow, cartDrawer, serverCart>>

\* either fire-and-forget fetch rejects or its body does not parse: a
\* console warning, nothing else
cartFetchFailed(r) ==
    /\ BagIn(r, pending)
    /\ r.kind \in {"cartEvent", "cartCount"}
    /\ pending' = Settle(r, EmptyBag)
    /\ lastOp' = Op("cartFetch:failed", r)
    /\ toasts' = << >>
    /\ cartUpdate' = NoEvent
    /\ cartIcon' = NoIcon
    /\ UNCHANGED <<currentProduct, selectedVariants, popupContent, popupActive, bodyOverflow, cartDrawer, serverCart>>

\* triggerCartUpdate's GET answers non-2xx with a JSON body: the body is
\* dispatched as the cart, itemCount being its missing item_count
triggerCartUpdateErrorBody(r) ==
    /\ BagIn(r, pending)
    /\ r.kind = "cartEvent"
    /\ cartUpdate' = [cart |-> ErrorBody, source |-> "gift-guide-grid",
                      itemCount |-> NoValue]
    /\ pending' = Settle(r, EmptyBag)
    /\ lastOp' = Op("triggerCartUpdate:errorBody", r)
    /\ toasts' = << >>
    /\ cartIcon' = NoIcon
    /\ UNCHANGED <<currentProduct, selectedVariants, popupContent, popupActive, bodyOverflow, cartDrawer, serverCart>>

\* updateCartCount's GET answers non-2xx with a JSON body:
\* cart.item_count || 0 is 0, the bubble is hidden
updateCartCountErrorBody(r) ==
    /\ BagIn(r, pending)
    /\ r.kind = "cartCount"
    /\ cartIcon' = [count |-> 0, display |-> "none"]
    /\ pending' = Settle(r, EmptyBag)
    /\ lastOp' = Op("updateCartCount:errorBody", r)
    /\ toasts' = << >>
    /\ cartUpdate' = NoEvent
    /\ UNCHANGED <<currentProduct, selectedVariants, popupContent, popupActive, bodyOverflow, cartDrawer, serverCart>>

\* -------------------------------------------------------------- popup close
\* close button, or a click whose target is the overlay itself
closePopup ==
    /\ popupActive' = FALSE
    /\ bodyOverflow' = ""
    /\ lastOp' = Op("closePopup", NoRequest)
    /\ toasts' = << >>
    /\ cartUpdate' = NoEvent
    /\ cartIcon' = NoIcon
    /\ UNCHANGED <<currentProduct, selectedVariants, popupContent, cartDrawer, pending, serverCart>>

\* where a click inside the overlay lands: on the overlay element itself
\* (the backdrop) or on a descendant, the popup content
ClickTargets == {"overlay", "content"}

\* mutant: the listener does not look at the click's target
overlayClick_anyTarget(target) ==
    /\ popupActive' = FALSE
    /\ bodyOverflow' = ""
    /\ lastOp' = Op(IF target = "overlay" THEN "overlayClick:overlay"
                    ELSE "overlayClick:content", NoRequest)
    /\ toasts' = << >>
    /\ cartUpdate' = NoEvent
    /\ cartIcon' = NoIcon
    /\ UNCHANGED <<currentProduct, selectedVariants, popupContent, cartDrawer, pending, serverCart>>

\* the click listener of the overlay: closePopup when the click's target is
\* the overlay, nothing otherwise
overlayClick(target) ==
    /\ IF target = "overlay"
       THEN popupActive' = FALSE /\ bodyOverflow' = ""
       ELSE UNCHANGED <<popupActive, bodyOverflow>>
    /\ lastOp' = Op(IF target = "overlay" THEN "overlayClick:overlay"
                    ELSE "overlayClick:content", NoRequest)
    /\ toasts' = << >>
    /\ cartUpdate' = NoEvent
    /\ cartIcon' = NoIcon
    /\ UNCHANGED <<currentProduct, selectedVariants, popupContent, cartDrawer, pending, serverCart>>

\* ----------------------------------------------------------- specification
ButtonIndexes == IF popupContent = NoRender THEN {} ELSE 1..Len(popupContent.buttons)

Next ==
    \/ \E product \in Hotspots : handleHotspotClick(product)
    \/ handleHotspotClickNoIdentifier
    \/ \E r \in BagToSet(pending) : loadProductOk(r)
    \/ \E r \in BagToSet(pending) : loadProductFailed(r)
    \/ \E j \in ButtonIndexes : handleVariantSelection(j)
    \/ handleAddToCart
    \/ \E r \in BagToSet(pending), hasIcon \in BOOLEAN : addToCartOk(r, hasIcon)
    \/ \E r \in BagToSet(pending) : addToCartFailed(r)
    \/ \E r \in BagToSet(pending), hasIcon \in BOOLEAN : addDarkWinterJacketToCartOk(r, hasIcon)
    \/ \E r \in BagToSet(pending) : addDarkWinterJacketToCartFailed(r)
    \/ \E r \in BagToSet(pending) : loadCartDataOk(r)
    \/ \E r \in BagToSet(pending) : loadCartDataFailed(r)
    \/ \E r \in BagToSet(pending) : loadCartDataErrorBody(r)
    \/ hideCartDrawer
    \/ \E r \in BagToSet(pending) : triggerCartUpdateOk(r)
    \/ \E r \in BagToSet(pending) : updateCartCountOk(r)
    \/ \E r \in BagToSet(pending) : cartFetchFailed(r)
    \/ \E r \in BagToSet(pending) : triggerCartUpdateErrorBody(r)
    \/ \E r \in BagToSet(pending) : updateCartCountErrorBody(r)
    \/ closePopup
    \/ \E target \in ClickTargets : overlayClick(target)

Spec == Init /\ [][Next]_vars

\* The popup on its own, for every product the storefront can serve: the
\* hotspot has been clicked and the product request is in flight; from
\* there the product loads (or fails), options are clicked and add-to-cart
\* is clicked.
InitSelect ==
    /\ currentProduct = NoProduct
    /\ selectedVariants = EmptySelection
    /\ popupContent = NoRender
    /\ popupActive = FALSE
    /\ bodyOverflow = ""
    /\ cartDrawer = NoDrawer
    /\ \E product \in StorefrontProducts :
          pending = Issue(ProductRequest(product, 0))
    /\ toasts = << >>
    /\ serverCart = 0
    /\ cartUpdate = NoEvent
    /\ cartIcon = NoIcon
    /\ lastOp = Op("handleHotspotClick", NoRequest)

NextSelect ==
    \/ \E r \in BagToSet(pending) : loadProductOk(r)
    \/ \E r \in BagToSet(pending) : loadProductFailed(r)
    \/ \E j \in ButtonIndexes : handleVariantSelection(j)
    \/ handleAddToCart

SpecSelect == InitSelect /\ [][NextSelect]_vars

\* Two hotspots clicked one after the other on a fresh page, both product
\* fetches in flight; from there the responses arrive in either order (or
\* fail), options are clicked, and further hotspots are clicked.
InitRace ==
    /\ currentProduct = NoProduct
    /\ selectedVariants = EmptySelection
    /\ popupContent = NoRender
    /\ popupActive = FALSE
    /\ bodyOverflow = ""
    /\ cartDrawer = NoDrawer
    /\ \E first \in Hotspots, second \in Hotspots :
          pending = Issue(ProductRequest(first, 0)) (+) Issue(ProductRequest(second, 1))
    /\ toasts = << >>
    /\ serverCart = 0
    /\ cartUpdate = NoEvent
    /\ cartIcon = NoIcon
    /\ lastOp = Op("handleHotspotClick", NoRequest)

NextRace ==
    \/ \E product \in Hotspots : handleHotspotClick(product)
    \/ \E r \in BagToSet(pending) : loadProductOk(r)
    \/ \E r \in BagToSet(pending) : loadProductFailed(r)
    \/ \E j \in ButtonIndexes : handleVariantSelection(j)

SpecRace == InitRace /\ [][NextRace]_vars

\* The image of the popup, for every way a two-variant product can carry
\* images: each variant with or without an image of its own and with no
\* image id, the id of a gallery image or an id the gallery lacks; the
\* product with or without a featured image; a gallery of up to MaxGallery
\* images; and the product exposing its option or none at all (then no
\* variant is resolved). The hotspot has been clicked, the fetch is in
\* flight.
MaxGallery == 2

GalleryImage(id) == [id |-> id, src |-> << "gallery", id >>]
Galleries == SeqsUpTo({ GalleryImage(id) : id \in 1..MaxGallery }, MaxGallery)
ImageIds == 0..(MaxGallery + 1)

PicturedVariant(id, size, hasImage, imageId) ==
    [Variant(id, TRUE, size, NoValue, NoValue)
     EXCEPT !.featured_image = IF hasImage THEN << "variant", id >> ELSE NoImage,
            !.featured_image_id = imageId]

PicturedProducts ==
    { [Product("gift-pictured", schema, IF schema = "none" THEN << >> ELSE <<"Size">>, TRUE,
               << PicturedVariant(501, Medium, ownFirst, idFirst),
                  PicturedVariant(502, Large, FALSE, idSecond) >>)
       EXCEPT !.featured_image = IF featured THEN << "product", "gift-pictured" >> ELSE NoImage,
              !.images = gallery] :
        schema \in {"legacy", "none"}, ownFirst \in BOOLEAN,
        idFirst \in ImageIds, idSecond \in ImageIds,
        featured \in BOOLEAN, gallery \in Galleries }

InitImage ==
    /\ currentProduct = NoProduct
    /\ selectedVariants = EmptySelection
    /\ popupContent = NoRender
    /\ popupActive = FALSE
    /\ bodyOverflow = ""
    /\ cartDrawer = NoDrawer
    /\ \E product \in PicturedProducts : pending = Issue(ProductRequest(product, 0))
    /\ toasts = << >>
    /\ serverCart = 0
    /\ cartUpdate = NoEvent
    /\ cartIcon = NoIcon
    /\ lastOp = Op("handleHotspotClick", NoRequest)

NextImage ==
    \/ \E r \in BagToSet(pending) : loadProductOk(r)
    \/ \E r \in BagToSet(pending) : loadProductFailed(r)
    \/ \E j \in ButtonIndexes : handleVariantSelection(j)
    \/ closePopup

SpecImage == InitImage /\ [][NextImage]_vars

\* The add button clicked twice in a row on a loaded product, both primary
\* POSTs in flight: the two flows finish one after the other, so that the
\* second showCartDrawer can start while the first one's GET /cart.js is
\* still pending; the drawer is closed and the adds repeated at will.
DrawerProducts == {Tee, Cap}

InitDrawer ==
    \E product \in DrawerProducts :
        LET selected == initializeVariants(product)
            request  == Request("add", NoProduct, getSelectedVariant(product, selected))
        IN  /\ currentProduct = product
            /\ selectedVariants = selected
            /\ popupContent = renderProductPopup(product, selected)
            /\ popupActive = TRUE
            /\ bodyOverflow = "hidden"
            /\ cartDrawer = NoDrawer
            /\ pending = Issue(request) (+) Issue(request)
            /\ toasts = << >>
            /\ serverCart = 0
            /\ cartUpdate = NoEvent
            /\ cartIcon = NoIcon
            /\ lastOp = Op("handleAddToCart", NoRequest)

NextDrawer ==
    \/ handleAddToCart
    \/ \E r \in BagToSet(pending), hasIcon \in BOOLEAN : addToCartOk(r, hasIcon)
    \/ \E r \in BagToSet(pending) : addToCartFailed(r)
    \/ \E r \in BagToSet(pending), hasIcon \in BOOLEAN : addDarkWinterJacketToCartOk(r, hasIcon)
    \/ \E r \in BagToSet(pending) : addDarkWinterJacketToCartFailed(r)
    \/ \E r \in BagToSet(pending) : loadCartDataOk(r)
    \/ \E r \in BagToSet(pending) : loadCartDataFailed(r)
    \/ \E r \in BagToSet(pending) : loadCartDataErrorBody(r)
    \/ hideCartDrawer
    \/ cartEmptiedElsewhere

SpecDrawer == InitDrawer /\ [][NextDrawer]_vars

\* The price line of the popup, for every whole price up to MaxPrice and
\* two prices in the thousands of dollars: a hotspot of a one-variant
\* product sold at that price has been clicked, its fetch is in flight.
MaxPrice == 2600

Prices == (1..MaxPrice) \cup {100000, 123456}

PricedProduct(price) ==
    [Product("gift-priced", "legacy", <<"Size">>, TRUE,
             << [Variant(401, TRUE, Medium, NoValue, NoValue) EXCEPT !.price = price] >>)
     EXCEPT !.price = price]

InitPrice ==
    /\ currentProduct = NoProduct
    /\ selectedVariants = EmptySelection
    /\ popupContent = NoRender
    /\ popupActive = FALSE
    /\ bodyOverflow = ""
    /\ cartDrawer = NoDrawer
    /\ \E price \in Prices : pending = Issue(ProductRequest(PricedProduct(price), 0))
    /\ toasts = << >>
    /\ serverCart = 0
    /\ cartUpdate = NoEvent
    /\ cartIcon = NoIcon
    /\ lastOp = Op("handleHotspotClick", NoRequest)

NextPrice ==
    \/ \E r \in BagToSet(pending) : loadProductOk(r)
    \/ \E r \in BagToSet(pending) : loadProductFailed(r)
    \/ closePopup

SpecPrice == InitPrice /\ [][NextPrice]_vars

\* The add button of an open popup clicked at will, also while an earlier
\* click's POST is still in flight: the button stays enabled during the
\* request and each click runs handleAddToCart.
InitDoubleAdd ==
    \E product \in DrawerProducts :
        /\ currentProduct = product
        /\ selectedVariants = initializeVariants(product)
        /\ popupContent = renderProductPopup(product, initializeVariants(product))
        /\ popupActive = TRUE
        /\ bodyOverflow = "hidden"
        /\ cartDrawer = NoDrawer
        /\ pending = EmptyBag
        /\ toasts = << >>
        /\ serverCart = 0
        /\ cartUpdate = NoEvent
        /\ cartIcon = NoIcon
        /\ lastOp = Op("loadProduct:ok", ProductRequest(product, 0))

NextDoubleAdd ==
    \/ AddToCartClick(MaxPending + 1)
    \/ \E j \in ButtonIndexes : handleVariantSelection(j)
    \/ \E r \in BagToSet(pending), hasIcon \in BOOLEAN : addToCartOk(r, hasIcon)
    \/ \E r \in BagToSet(pending) : addToCartFailed(r)
    \/ \E r \in BagToSet(pending), hasIcon \in BOOLEAN : addDarkWinterJacketToCartOk(r, hasIcon)
    \/ \E r \in BagToSet(pending) : addDarkWinterJacketToCartFailed(r)
    \/ \E r \in BagToSet(pending) : loadCartDataOk(r)
    \/ \E r \in BagToSet(pending) : loadCartDataFailed(r)
    \/ \E r \in BagToSet(pending) : loadCartDataErrorBody(r)

SpecDoubleAdd == InitDoubleAdd /\ [][NextDoubleAdd]_vars

\* The page after a product was loaded into the open popup, with hotspots
\* clicked also while the requests of an add flow are still in flight:
\* handleHotspotClick looks neither at the popup nor at the drawer.
MaxOverlap == 1

NextOverlap ==
    \/ \E product \in Hotspots : HotspotClick(product, MaxPending + MaxOverlap)
    \/ \E r \in BagToSet(pending) : loadProductOk(r)
    \/ \E r \in BagToSet(pending) : loadProductFailed(r)
    \/ handleAddToCart
    \/ \E r \in BagToSet(pending) : addToCartOk(r, FALSE)
    \/ \E r \in BagToSet(pending) : addToCartFailed(r)
    \/ \E r \in BagToSet(pending) : addDarkWinterJacketToCartOk(r, FALSE)
    \/ \E r \in BagToSet(pending) : addDarkWinterJacketToCartFailed(r)
    \/ \E r \in BagToSet(pending) : loadCartDataOk(r)
    \/ \E r \in BagToSet(pending) : loadCartDataFailed(r)
    \/ \E r \in BagToSet(pending) : loadCartDataErrorBody(r)
    \/ \E r \in BagToSet(pending) : triggerCartUpdateOk(r)
    \/ \E r \in BagToSet(pending) : cartFetchFailed(r)
    \/ \E r \in BagToSet(pending) : triggerCartUpdateErrorBody(r)
    \/ \E j \in ButtonIndexes : handleVariantSelection(j)
    \/ hideCartDrawer

SpecOverlap == InitDoubleAdd /\ [][NextOverlap]_vars

\* The add-to-cart flow on its own, for every variant over the option
\* values the bundle rule tells apart: the variant's product is loaded,
\* add-to-cart has been clicked and the primary POST is in flight.
BundleValues ==
    {Black, BLACK, JetBlack, Navy, Medium, MEDIUM, MediumTall, LetterM, Letterm, Large}

BundleVariants ==
    { Variant(1, TRUE, o1, o2, o3) :
        o1 \in BundleValues, o2 \in BundleValues \cup {NoValue}, o3 \in {NoValue, Wool, Black, LetterM} }

BundleProduct(variant) ==
    Product("bundle", "legacy",
            IF Truthy(variant.option3) THEN OptionNames
            ELSE IF Truthy(variant.option2) THEN FirstNames(2) ELSE FirstNames(1),
            TRUE, << variant >>)

InitBundle ==
    \E variant \in BundleVariants :
        /\ currentProduct = BundleProduct(variant)
        /\ selectedVariants = initializeVariants(BundleProduct(variant))
        /\ popupContent = renderProductPopup(BundleProduct(variant),
                                             initializeVariants(BundleProduct(variant)))
        /\ popupActive = TRUE
        /\ bodyOverflow = "hidden"
        /\ cartDrawer = NoDrawer
        /\ pending = Issue(Request("add", NoProduct, variant))
        /\ toasts = << >>
        /\ serverCart = 0
        /\ cartUpdate = NoEvent
        /\ cartIcon = NoIcon
        /\ lastOp = Op("handleAddToCart", NoRequest)

NextBundle ==
    \/ \E r \in BagToSet(pending), hasIcon \in BOOLEAN : addToCartOk(r, hasIcon)
    \/ \E r \in BagToSet(pending) : addToCartFailed(r)
    \/ \E r \in BagToSet(pending), hasIcon \in BOOLEAN : addDarkWinterJacketToCartOk(r, hasIcon)
    \/ \E r \in BagToSet(pending) : addDarkWinterJacketToCartFailed(r)
    \/ \E r \in BagToSet(pending) : loadCartDataOk(r)
    \/ \E r \in BagToSet(pending) : loadCartDataFailed(r)
    \/ \E r \in BagToSet(pending) : loadCartDataErrorBody(r)

SpecBundle == InitBundle /\ [][NextBundle]_vars

\* ================================================================== claims
\* what the claims call "equals the selection in every option slot, a slot
\* whose option has no selected value matching anything"
SlotsEqual(product, selected, variant) ==
    \A index \in 1..Len(ExposedOptions(product)) :
        LET name == ExposedOptions(product)[index].name
        IN  selected[name] = NoValue \/ OptionOf(variant, index) = selected[name]

MatchingVariants(product, selected) ==
    { i \in 1..Len(product.variants) : SlotsEqual(product, selected, product.variants[i]) }

Lowest(S) == CHOOSE i \in S : \A j \in S : i <= j

ExposesOptions(product) == product # NoProduct /\ Len(ExposedOptions(product)) > 0

\* C1: for a loaded product that exposes options and any selection,
\* getSelectedVariant returns a variant iff some variant equals the
\* selection in every slot (unselected slots are wildcards), and it returns
\* the first such variant in the product's variant order.
C1_ResolverReturnsFirstMatch ==
    ExposesOptions(currentProduct) =>
        \A selected \in AnySelections :
            LET matching == MatchingVariants(currentProduct, selected)
                variant  == getSelectedVariant(currentProduct, selected)
            IN  /\ (variant # NoVariant) <=> (matching # {})
                /\ matching # {} => variant = currentProduct.variants[Lowest(matching)]

\* a loaded product under which one selection matches several variants and
\* resolves to the earliest, and another selection resolves past variant 1
W1_SeveralMatch ==
    /\ ExposesOptions(currentProduct)
    /\ lastOp.name = "loadProduct:ok"
    /\ \E selected \in AnySelections :
          /\ Cardinality(MatchingVariants(currentProduct, selected)) >= 2
          /\ getSelectedVariantIndex(currentProduct, selected)
                = Lowest(MatchingVariants(currentProduct, selected))
    /\ \E selected \in AnySelections :
          getSelectedVariantIndex(currentProduct, selected) >= 2
    /\ \E selected \in AnySelections :
          getSelectedVariant(currentProduct, selected) = NoVariant

\* C2: in every state reached by loading a product and clicking option
\* buttons, the variant getSelectedVariant returns is the only variant that
\* equals the current selection in every slot.
C2_ResolvedVariantUnique ==
    LET variant == getSelectedVariant(currentProduct, selectedVariants)
    IN  variant # NoVariant =>
            \A i \in MatchingVariants(currentProduct, selectedVariants) :
                currentProduct.variants[i] = variant

\* an option button was clicked on a product with several variants and a
\* variant is resolved
W2_ClickedAndResolved ==
    /\ lastOp.name = "handleVariantSelection"
    /\ Len(currentProduct.variants) >= 2
    /\ getSelectedVariantIndex(currentProduct, selectedVariants) >= 2

\* C3: after initializeVariants ran on a product with at least one
\* available variant, selectedVariants holds a value for every option the
\* product exposes and has no other entry, in either option schema.
HasAvailableVariant(product) ==
    /\ product # NoProduct
    /\ \E i \in 1..Len(product.variants) : product.variants[i].available

C3_SelectionCoversEveryOption ==
    (lastOp.name = "loadProduct:ok" /\ HasAvailableVariant(currentProduct)) =>
        /\ \A index \in 1..Len(ExposedOptions(currentProduct)) :
              Truthy(selectedVariants[ExposedOptions(currentProduct)[index].name])
        /\ \A key \in Keys :
              Truthy(selectedVariants[key]) =>
                  \E index \in 1..Len(ExposedOptions(currentProduct)) :
                      ExposedOptions(currentProduct)[index].name = key

\* a legacy product with two options was loaded whose first variant is sold
\* out: the selection is that of the later, available variant
W3_LegacyInitialised ==
    /\ lastOp.name = "loadProduct:ok"
    /\ UsesLegacyOptions(currentProduct)
    /\ Len(currentProduct.options) = 2
    /\ Len(currentProduct.variants) >= 2
    /\ ~currentProduct.variants[1].available
    /\ currentProduct.variants[2].available
    /\ selectedVariants[currentProduct.options[1].name] = currentProduct.variants[2].option1
    /\ selectedVariants[currentProduct.options[2].name] = currentProduct.variants[2].option2

\* C4: isVariantAvailable(O, V) is true iff some variant carries V in O's
\* slot and equals the selection in every other slot that has a selected
\* value; the selection for O itself is ignored.
C4_AvailabilityIgnoresOwnOption ==
    currentProduct # NoProduct =>
        \A selected \in AnySelections, optionName \in Keys, optionValue \in AnyValues :
            isVariantAvailable(currentProduct, selected, optionName, optionValue)
            <=> \E i \in 1..Len(currentProduct.variants),
                   slot \in 1..Len(ExposedOptions(currentProduct)) :
                    /\ ExposedOptions(currentProduct)[slot].name = optionName
                    /\ OptionOf(currentProduct.variants[i], slot) = optionValue
                    /\ \A other \in 1..Len(ExposedOptions(currentProduct)) :
                          LET name == ExposedOptions(currentProduct)[other].name
                          IN  \/ other = slot
                              \/ selected[name] = NoValue
                              \/ OptionOf(currentProduct.variants[i], other) = selected[name]

\* a loaded two-option product with a value that is available although the
\* selection holds another value for the same option, and a value that is
\* unavailable because of the other option's selection
W4_AvailabilityBothWays ==
    /\ lastOp.name = "loadProduct:ok"
    /\ Len(ExposedOptions(currentProduct)) = 2
    /\ \E selected \in AnySelections, value \in SlotValues(1) :
          /\ Truthy(selected[OptionNames[1]])
          /\ selected[OptionNames[1]] # value
          /\ isVariantAvailable(currentProduct, selected, OptionNames[1], value)
    /\ \E selected \in AnySelections, value \in SlotValues(1) :
          /\ \E i \in 1..Len(currentProduct.variants) : currentProduct.variants[i].option1 = value
          /\ ~isVariantAvailable(currentProduct, selected, OptionNames[1], value)

\* the popup shows the current product (it keeps older content when a load
\* failed or the render threw)
PopupShowsCurrent == popupContent # NoRender /\ popupContent.product = currentProduct

\* C5 as stated: in every rendered popup, in both option schemas, a button
\* is disabled exactly when isVariantAvailable is false for its option and
\* value under the current selection.
C5_DisabledIffResolverUnavailable ==
    PopupShowsCurrent =>
        \A j \in 1..Len(popupContent.buttons) :
            popupContent.buttons[j].disabled
            <=> ~isVariantAvailable(currentProduct, selectedVariants,
                                    popupContent.buttons[j].option,
                                    popupContent.buttons[j].value)

\* C6: an add-to-cart click POSTs to /cart/add.js only if getSelectedVariant
\* returns a variant and it is available; otherwise the click issues no
\* request, shows no toast and leaves popup, drawer and selection as they
\* were.
C6_AddClickGuarded ==
    [][ lastOp'.name = "handleAddToCart" =>
          LET variant == getSelectedVariant(currentProduct, selectedVariants)
          IN  IF variant # NoVariant /\ variant.available
              THEN pending' = pending (+) SetToBag({Request("add", NoProduct, variant)})
              ELSE /\ pending' = pending
                   /\ toasts' = << >>
                   /\ UNCHANGED <<currentProduct, selectedVariants, popupContent,
                                  popupActive, bodyOverflow, cartDrawer, serverCart>>
      ]_vars

\* add-to-cart was clicked on a loaded product whose resolved variant is
\* sold out, and nothing was requested
W6_ClickBlockedSoldOut ==
    /\ lastOp.name = "handleAddToCart"
    /\ getSelectedVariant(currentProduct, selectedVariants) # NoVariant
    /\ ~getSelectedVariant(currentProduct, selectedVariants).available
    /\ pending = EmptyBag
    /\ popupActive

OptionValues(variant) == {variant.option1, variant.option2, variant.option3} \ {NoValue}

SameIgnoringCase(value, lower) == toLowerCase(value) = lower
ContainsIgnoringCase(value, lower) == includes(toLowerCase(value), lower)

\* C7: after a successful primary add the bundle request is issued for
\* every variant whose option values include, in any slot and any letter
\* case, "Black" and "Medium" or "M"; it is not issued for a variant none
\* of whose values contains "black".
C7_BundleForBlackMedium ==
    [][ lastOp'.name = "addToCart:ok" =>
          LET values == OptionValues(lastOp'.request.variant)
          IN  /\ ( /\ \E v \in values : SameIgnoringCase(v, Str_black)
                   /\ \E v \in values : SameIgnoringCase(v, Str_medium)
                                        \/ SameIgnoringCase(v, Str_m) )
                 => Count(pending', "bundle") = Count(pending, "bundle") + 1
              /\ (\A v \in values : ~ContainsIgnoringCase(v, Str_black))
                 => Count(pending', "bundle") = Count(pending, "bundle")
      ]_vars

\* the primary add of the variant M / BLACK succeeded and its bundle POST
\* is in flight
W7_BundleIssuedUpperCase ==
    /\ lastOp.name = "addToCart:ok"
    /\ lastOp.request.variant.option1 = LetterM
    /\ lastOp.request.variant.option2 = BLACK
    /\ Count(pending, "bundle") = 1

\* C8 as stated: the bundle is triggered only when some option value
\* contains "black" and some option value equals "medium" or "m", ignoring
\* case; "medium" inside a longer value does not trigger it.
C8_BundleOnlyForSizeToken ==
    [][ Count(pending', "bundle") > Count(pending, "bundle") =>
          LET values == OptionValues(lastOp'.request.variant)
          IN  /\ \E v \in values : ContainsIgnoringCase(v, Str_black)
              /\ \E v \in values : SameIgnoringCase(v, Str_medium)
                                   \/ SameIgnoringCase(v, Str_m)
      ]_vars

\* C8 amended: the bundle is triggered only when some option value contains
\* "black" and some option value contains "medium" (also inside a longer
\* value) or equals "m", ignoring case.
C8_BundleOnlyForBlackAndMediumText ==
    [][ Count(pending', "bundle") > Count(pending, "bundle") =>
          LET values == OptionValues(lastOp'.request.variant)
          IN  /\ lastOp'.name = "addToCart:ok"
              /\ \E v \in values : ContainsIgnoringCase(v, Str_black)
              /\ \E v \in values : ContainsIgnoringCase(v, Str_medium)
                                   \/ SameIgnoringCase(v, Str_m)
      ]_vars

\* the primary add of Jet black / Medium Tall succeeded and triggered the
\* bundle
W8_BundleForLongerToken ==
    /\ lastOp.name = "addToCart:ok"
    /\ lastOp.request.variant.option1 = JetBlack
    /\ lastOp.request.variant.option2 = MediumTall
    /\ Count(pending, "bundle") = 1

\* the steps that end an add flow: the primary add succeeded and the bundle
\* rule did not fire, or the bundle add settled
FinishesAdd(op) ==
    \/ op.name = "addToCart:ok" /\ ~shouldAutoAddDarkWinterJacket(op.request.variant)
    \/ op.name \in {"addDarkWinterJacketToCart:ok", "addDarkWinterJacketToCart:failed"}

\* C9: on the success path the bundle POST is issued only when the primary
\* POST has succeeded (and the rule fires); the popup is closed, the
\* success toast shown and the drawer's GET /cart.js issued only once the
\* primary add has succeeded and the bundle add, if any, has settled; the
\* drawer becomes active only when that GET has settled, showing its
\* response.
C9_AddFlowOrder ==
    [][ /\ Count(pending', "bundle") > Count(pending, "bundle")
           => /\ lastOp'.name = "addToCart:ok"
              /\ shouldAutoAddDarkWinterJacket(lastOp'.request.variant)
        /\ FinishesAdd(lastOp')
           <=> \E i \in 1..Len(toasts') : toasts'[i] = MsgAdded
        /\ FinishesAdd(lastOp')
           <=> Count(pending', "cartDrawer") > Count(pending, "cartDrawer")
        /\ FinishesAdd(lastOp')
           => /\ ~popupActive'
              /\ cartDrawer' # NoDrawer
              /\ toasts'[Len(toasts')] = MsgAdded
        /\ (DrawerActive(cartDrawer') /\ ~DrawerActive(cartDrawer))
           => /\ lastOp'.name \in {"loadCartData:ok", "loadCartData:failed",
                                   "loadCartData:errorBody"}
              /\ Count(pending', "cartDrawer") = Count(pending, "cartDrawer") - 1
              /\ lastOp'.name = "loadCartData:ok"
                 => /\ cartDrawer'.items = serverCart
                    /\ cartDrawer'.subtotal = formatPrice(serverCart * UnitPrice)
                    /\ ~cartDrawer'.checkoutDisabled
      ]_vars

\* primary and bundle add both succeeded, the popup is closed and the
\* drawer is open on the cart holding both items
W9_DrawerOpenAfterBundle ==
    /\ lastOp.name = "loadCartData:ok"
    /\ DrawerActive(cartDrawer)
    /\ cartDrawer.items = 2
    /\ serverCart = 2
    /\ ~popupActive
    /\ bodyOverflow = "hidden"

\* C10: when the primary add fails, an error toast is shown, the popup
\* stays as it was, and the flow stops: no bundle request, no success
\* toast, no drawer, no cart fetch for a cart-updated event.
C10_PrimaryFailureAborts ==
    [][ lastOp'.name = "addToCart:failed" =>
          /\ toasts' = << MsgFailed >>
          /\ popupActive' = popupActive
          /\ pending' = pending (-) SetToBag({lastOp'.request})
          /\ lastOp'.request.kind = "add"
          /\ BagIn(lastOp'.request, pending)
          /\ cartUpdate' = NoEvent
          /\ UNCHANGED <<cartDrawer, serverCart, bodyOverflow, currentProduct,
                         selectedVariants, popupContent>>
      ]_vars

\* the primary add failed with the popup open: the error toast is up and
\* nothing else is in flight
W10_PrimaryFailed ==
    /\ lastOp.name = "addToCart:failed"
    /\ toasts = << MsgFailed >>
    /\ popupActive
    /\ pending = EmptyBag
    /\ cartDrawer = NoDrawer

\* the end of a successful add as the shopper sees it: popup closed, page
\* scroll restored, the success toast last on screen and no error toast,
\* the drawer element there and its GET /cart.js issued
EndsInSuccess ==
    /\ ~popupActive'
    /\ bodyOverflow' = ""
    /\ toasts' # << >>
    /\ toasts'[Len(toasts')] = MsgAdded
    /\ \A i \in 1..Len(toasts') : toasts'[i] # MsgFailed
    /\ cartDrawer' # NoDrawer
    /\ Count(pending', "cartDrawer") = Count(pending, "cartDrawer") + 1
    /\ UNCHANGED <<currentProduct, selectedVariants, popupContent>>

\* C11: when the bundle add fails after a successful primary add, no error
\* toast is shown and the flow closes the popup, shows 'Product added to
\* cart!' and opens the cart drawer, exactly as a successful add for which
\* no bundle was attempted.
C11_BundleFailureSwallowed ==
    [][ /\ lastOp'.name = "addDarkWinterJacketToCart:failed"
           => /\ EndsInSuccess
              /\ toasts' = << MsgAdded >>
              /\ serverCart' = serverCart
        /\ (lastOp'.name = "addToCart:ok"
            /\ ~shouldAutoAddDarkWinterJacket(lastOp'.request.variant))
           => /\ EndsInSuccess
              /\ toasts' = << MsgAdded >>
      ]_vars

\* the bundle add of a Black / Medium variant failed: the primary item is
\* in the cart, the popup is closed under the success toast and the
\* drawer's cart request is in flight
W11_BundleFailedQuietly ==
    /\ lastOp.name = "addDarkWinterJacketToCart:failed"
    /\ lastOp.request.variant.option1 = Black
    /\ lastOp.request.variant.option2 = Medium
    /\ toasts = << MsgAdded >>
    /\ ~popupActive
    /\ serverCart = 1
    /\ cartDrawer # NoDrawer
    /\ Count(pending, "cartDrawer") = 1

\* C12: a hotspot click cancels no product fetch in flight, and the
\* arrival of a product response leaves the other fetches in flight; each
\* response that arrives becomes currentProduct, with its initial selection
\* and its rendering, whichever click issued it first: once no product
\* fetch is in flight, the widget shows the response that arrived last.
C12_LastResponseWins ==
    [][ /\ lastOp'.name = "handleHotspotClick"
           => /\ pending \sqsubseteq pending'
              /\ Count(pending', "product") = Count(pending, "product") + 1
        /\ lastOp'.name = "loadProduct:ok"
           => /\ Count(pending', "product") = Count(pending, "product") - 1
              /\ currentProduct' = lastOp'.request.product
              /\ selectedVariants' = initializeVariants(lastOp'.request.product)
              /\ ~RenderThrows(lastOp'.request.product)
                 => popupContent' = renderProductPopup(lastOp'.request.product,
                                                       selectedVariants')
        /\ lastOp'.name = "loadProduct:failed"
           => Count(pending', "product") = Count(pending, "product") - 1
      ]_vars

\* the cap was clicked first with nothing in flight, the tee's response
\* was stored while the cap's fetch was in flight, and the cap's response,
\* arriving last, has replaced the tee in the popup
W12_SlowFirstResponseWon ==
    /\ lastOp.name = "loadProduct:ok"
    /\ lastOp.request.behind = 0
    /\ lastOp.request.overtaken
    /\ lastOp.request.product = Cap
    /\ Count(pending, "product") = 0
    /\ currentProduct = Cap
    /\ popupContent # NoRender
    /\ popupContent.product = Cap
    /\ selectedVariants = initializeVariants(Cap)

\* C13: when a product fetch fails, the popup is opened all the same, no
\* toast is shown, and currentProduct, selectedVariants and the popup
\* content are left exactly as the failed load found them: the previously
\* loaded product, or nothing when none was loaded.
C13_LoadFailureOpensStalePopup ==
    [][ lastOp'.name = "loadProduct:failed" =>
          /\ popupActive'
          /\ bodyOverflow' = "hidden"
          /\ toasts' = << >>
          /\ lastOp'.request.kind = "product"
          /\ pending' = pending (-) SetToBag({lastOp'.request})
          /\ UNCHANGED <<currentProduct, selectedVariants, popupContent>>
          /\ currentProduct = NoProduct
             => popupContent' = NoRender /\ selectedVariants' = EmptySelection
      ]_vars

\* the tee was loaded and its popup closed; the click on the cap's hotspot
\* failed to load, and the popup is open again on the tee
W13_FailedLoadShowsPrevious ==
    /\ lastOp.name = "loadProduct:failed"
    /\ lastOp.request.product = Cap
    /\ popupActive
    /\ currentProduct = Tee
    /\ popupContent # NoRender
    /\ popupContent.product = Tee
    /\ selectedVariants = initializeVariants(Tee)

\* C14: a click on a hotspot with neither a product handle nor a product
\* id returns early: no request is issued, the popup is not opened, and
\* currentProduct and selectedVariants are unchanged.
C14_NoIdentifierReturnsEarly ==
    [][ lastOp'.name = "handleHotspotClick:noIdentifier" =>
          /\ pending' = pending
          /\ popupActive' = popupActive
          /\ bodyOverflow' = bodyOverflow
          /\ toasts' = << >>
          /\ UNCHANGED <<currentProduct, selectedVariants, popupContent, cartDrawer, serverCart>>
      ]_vars

\* a hotspot without identifier was clicked on the fresh page: nothing in
\* flight, the popup closed and empty
W14_NoIdentifierClicked ==
    /\ lastOp.name = "handleHotspotClick:noIdentifier"
    /\ ~popupActive
    /\ bodyOverflow = ""
    /\ pending = EmptyBag
    /\ currentProduct = NoProduct
    /\ selectedVariants = EmptySelection

\* C15: across any sequence of drawer opens and closes, also opens that
\* start while an earlier open's cart fetch is pending, one drawer element
\* is created, by the first open, and every later open, close and cart
\* response works on that same element.
C15_DrawerCreatedOnce ==
    [][ /\ cartDrawer' # NoDrawer => cartDrawer'.element = 1
        /\ cartDrawer # NoDrawer => cartDrawer' # NoDrawer
        /\ (cartDrawer = NoDrawer /\ cartDrawer' # NoDrawer) => FinishesAdd(lastOp')
        /\ (cartDrawer # NoDrawer /\ FinishesAdd(lastOp')) => cartDrawer' = cartDrawer
      ]_vars

\* a second open has started on the existing element while the first
\* open's cart fetch is still pending
W15_OverlappingOpens ==
    /\ FinishesAdd(lastOp)
    /\ cartDrawer # NoDrawer
    /\ cartDrawer.element = 1
    /\ ~cartDrawer.active
    /\ Count(pending, "cartDrawer") = 2

\* C16: every drawer open issues a GET /cart.js, and when a cart response
\* has been processed the checkout button is disabled exactly when that
\* cart's item_count is 0, the empty-cart message is shown exactly then,
\* and the subtotal is the formatted total_price of that cart.
C16_DrawerTracksCart ==
    [][ /\ FinishesAdd(lastOp')
           => Count(pending', "cartDrawer") = Count(pending, "cartDrawer") + 1
        /\ lastOp'.name = "loadCartData:ok"
           => LET cart == Cart(serverCart)
              IN  /\ cartDrawer'.checkoutDisabled <=> cart.item_count = 0
                  /\ cartDrawer'.emptyDisplay = "block" <=> cart.item_count = 0
                  /\ cartDrawer'.emptyDisplay = "none" <=> cart.item_count # 0
                  /\ cartDrawer'.itemsDisplay = "none" <=> cart.item_count = 0
                  /\ cartDrawer'.subtotal = formatPrice(cart.total_price)
                  /\ cart.item_count # 0 => cartDrawer'.items = cart.item_count
      ]_vars

\* the cart was emptied elsewhere while the drawer's request was in
\* flight: the drawer is open on the empty-cart message, checkout disabled
W16_DrawerOnEmptyCart ==
    /\ lastOp.name = "loadCartData:ok"
    /\ serverCart = 0
    /\ DrawerActive(cartDrawer)
    /\ cartDrawer.checkoutDisabled
    /\ cartDrawer.emptyDisplay = "block"
    /\ cartDrawer.subtotal = formatPrice(0)

\* C17: a click inside the popup overlay closes the popup only when its
\* target is the overlay element itself; a click whose target is a
\* descendant, the popup content, leaves the popup as it is.
C17_OverlayClickOnlyOnOverlay ==
    [][ /\ lastOp'.name = "overlayClick:content"
           => UNCHANGED <<popupActive, bodyOverflow, popupContent, currentProduct,
                          selectedVariants, pending>>
        /\ lastOp'.name = "overlayClick:overlay"
           => ~popupActive' /\ bodyOverflow' = ""
      ]_vars

\* the tee's popup is open and a click on its content has reached the
\* overlay's listener: the popup is still open, page scroll still locked
W17_ContentClickKeepsPopup ==
    /\ lastOp.name = "overlayClick:content"
    /\ popupActive
    /\ bodyOverflow = "hidden"
    /\ currentProduct = Tee

\* the amount a displayed price stands for, in cents: its digits read in
\* order, currency sign, grouping commas and decimal point skipped
RECURSIVE ReadDigits(_, _, _)
ReadDigits(text, i, acc) ==
    IF i > Len(text) THEN acc
    ELSE IF \E d \in 0..9 : Digits[d + 1] = text[i]
    THEN ReadDigits(text, i + 1, 10 * acc + (CHOOSE d \in 0..9 : Digits[d + 1] = text[i]))
    ELSE ReadDigits(text, i + 1, acc)

\* "$", digits and grouping commas, ".", two digits
DollarsAndCents(text) ==
    /\ Len(text) >= 5
    /\ text[1] = "$"
    /\ text[Len(text) - 2] = "."
    /\ \A i \in 2..Len(text) :
          \/ \E d \in 0..9 : Digits[d + 1] = text[i]
          \/ i < Len(text) - 2 /\ text[i] = ","
          \/ i = Len(text) - 2

\* C18: formatPrice on a positive whole price p takes p for cents when
\* p > 1000 and for dollars otherwise, and displays the amount in US
\* dollars with two decimals: 2500 is shown as "$25.00", and every p of at
\* most 1000 is shown as p dollars.
C18_FormatPriceCentsAboveThousand ==
    popupContent # NoRender =>
        LET p    == popupContent.product.variants[1].price
            text == popupContent.price
        IN  /\ DollarsAndCents(text)
            /\ p > 1000 => ReadDigits(text, 1, 0) = p
            /\ p <= 1000 => ReadDigits(text, 1, 0) = p * 100
            /\ p = 2500 => text = <<"$", "2", "5", ".", "0", "0">>
            /\ p = 25 => text = <<"$", "2", "5", ".", "0", "0">>

\* the popup of a product priced 1000 shows "$1,000.00"
W18_ThousandShownAsDollars ==
    /\ popupContent # NoRender
    /\ popupContent.product.variants[1].price = 1000
    /\ popupContent.price = <<"$", "1", ",", "0", "0", "0", ".", "0", "0">>

\* the values the variants of a product carry in the slot of an option name
ValuesOfOption(product, optionName) ==
    IF ~HasVariantsArray(product) THEN {}
    ELSE { OptionOf(product.variants[v], i) :
             v \in 1..Len(product.variants),
             i \in { n \in 1..Len(ExposedOptions(product)) :
                       ExposedOptions(product)[n].name = optionName } }

\* C19: a successful product load replaces the whole selection by the
\* initial selection of the new product, so that every entry left is a
\* value of the new product; an option-button click sets exactly the
\* clicked option's entry to the clicked value and leaves every other
\* entry and currentProduct unchanged.
C19_SelectionFrame ==
    [][ /\ lastOp'.name = "loadProduct:ok"
           => /\ currentProduct' = lastOp'.request.product
              /\ selectedVariants' = initializeVariants(currentProduct')
              /\ \A k \in Keys :
                    Truthy(selectedVariants'[k])
                    => selectedVariants'[k] \in ValuesOfOption(currentProduct', k)
        /\ lastOp'.name = "handleVariantSelection"
           => /\ currentProduct' = currentProduct
              /\ \E j \in 1..Len(popupContent.buttons) :
                    /\ ~popupContent.buttons[j].disabled
                    /\ selectedVariants'[popupContent.buttons[j].option]
                          = popupContent.buttons[j].value
                    /\ \A k \in Keys \ {popupContent.buttons[j].option} :
                          selectedVariants'[k] = selectedVariants[k]
      ]_vars

\* on the tee, Navy was clicked: Color is Navy and Size still Medium
W19_ClickedOneEntry ==
    /\ lastOp.name = "handleVariantSelection"
    /\ currentProduct = Tee
    /\ selectedVariants["Color"] = Navy
    /\ selectedVariants["Size"] = Medium
    /\ \A k \in Keys \ {"Color", "Size"} : selectedVariants[k] = NoValue

\* C20 as stated: for a loaded product that exposes no options and has at
\* least one variant, the first variant is the selected one: the resolver
\* returns it, the popup shows its price and image and carries its id, and
\* an add-to-cart click is let through exactly when it is available.
C20_NoOptionsFirstVariantSelected ==
    ( /\ PopupShowsCurrent
      /\ ~ExposesOptions(currentProduct)
      /\ HasVariantsArray(currentProduct)
      /\ Len(currentProduct.variants) >= 1 )
    => LET first == currentProduct.variants[1]
       IN  /\ getSelectedVariant(currentProduct, selectedVariants) = first
           /\ popupContent.variantId = first.id
           /\ popupContent.price = formatPrice(first.price)
           /\ popupContent.image = first.featured_image
           /\ popupContent.addToCartDisabled = ~first.available
           /\ CanAdd(currentProduct, selectedVariants) = first.available

\* C21 as stated: whenever the popup overlay or the cart drawer is active,
\* page scroll is locked (document.body.style.overflow is 'hidden').
C21_ScrollLockedWhileOverlayActive ==
    (popupActive \/ DrawerActive(cartDrawer)) => bodyOverflow = "hidden"

\* C22 as stated: while an add-to-cart POST started from the popup is in
\* flight, a further click on the add-to-cart button issues no other POST
\* for the same variant.
C22_NoSecondAddWhileInFlight ==
    [][ lastOp'.name = "handleAddToCart" =>
          \A r \in BagToSet(pending) :
              r.kind = "add" => CopiesIn(r, pending') = CopiesIn(r, pending)
      ]_vars

\* C23 as stated: the product popup and the cart drawer are never active
\* at the same time.
C23_PopupAndDrawerExclusive ==
    ~(popupActive /\ DrawerActive(cartDrawer))

\* the continuations that handle a failed request
HandlesFailure(op) ==
    op.name \in {"loadProduct:failed", "addToCart:failed", "addDarkWinterJacketToCart:failed",
                 "loadCartData:failed", "loadCartData:errorBody", "cartFetch:failed",
                 "triggerCartUpdate:errorBody", "updateCartCount:errorBody"}

\* one click, one request: an add-to-cart click issues at most one POST for
\* the chosen variant, a successful primary add at most one bundle POST, a
\* hotspot click one product GET, and nothing else issues any of the three
OneRequestPerClick ==
    /\ Count(pending', "add") > Count(pending, "add")
       => /\ lastOp'.name = "handleAddToCart"
          /\ Count(pending', "add") = Count(pending, "add") + 1
          /\ InFlight' = InFlight + 1
    /\ Count(pending', "bundle") > Count(pending, "bundle")
       => /\ lastOp'.name = "addToCart:ok"
          /\ Count(pending', "bundle") = Count(pending, "bundle") + 1
          /\ Count(pending', "add") = Count(pending, "add") - 1
    /\ Count(pending', "product") > Count(pending, "product")
       => /\ lastOp'.name = "handleHotspotClick"
          /\ Count(pending', "product") = Count(pending, "product") + 1
          /\ InFlight' = InFlight + 1

\* C24 as stated: no request is retried, one request per click, and after
\* a failure no further request is issued until the shopper clicks again.
C24_NoRequestAfterFailure ==
    [][ /\ OneRequestPerClick
        /\ HandlesFailure(lastOp')
           => pending' = pending (-) SetToBag({lastOp'.request})
      ]_vars

\* C24 amended: no request is retried, one request per click; after a
\* failed product GET, primary POST or cart GET no further request is
\* issued until the shopper clicks again, and after a failed bundle POST
\* the only request issued is the cart drawer's GET /cart.js.
C24_NoRetryAfterFailure ==
    [][ /\ OneRequestPerClick
        /\ (HandlesFailure(lastOp') /\ lastOp'.name # "addDarkWinterJacketToCart:failed")
           => pending' = pending (-) SetToBag({lastOp'.request})
        /\ lastOp'.name = "addDarkWinterJacketToCart:failed"
           => pending' = (pending (-) SetToBag({lastOp'.request}))
                         (+) SetToBag({Request("cartDrawer", NoProduct, NoVariant)})
      ]_vars

\* the tee's bundle POST failed: no POST is in flight, the drawer's cart
\* request has been issued
W24_OnlyCartRequestAfterBundleFailure ==
    /\ lastOp.name = "addDarkWinterJacketToCart:failed"
    /\ currentProduct = Tee
    /\ Count(pending, "add") = 0
    /\ Count(pending, "bundle") = 0
    /\ Count(pending, "cartDrawer") = 1

\* ---------------------------------------------------------------- C25
AddSucceeded(op) == op.name \in {"addToCart:ok", "addDarkWinterJacketToCart:ok"}
AddFailed(op) == op.name \in {"addToCart:failed", "addDarkWinterJacketToCart:failed"}

\* a GET /cart.js of the cart event or the cart count that did not bring a
\* cart: the fetch rejected, the body did not parse, or the answer was
\* non-2xx
FailedCartFetch(op) ==
    op.name \in {"cartFetch:failed", "triggerCartUpdate:errorBody", "updateCartCount:errorBody"}

\* C25 as stated: a cart-updated event is dispatched only by the answer to
\* a GET /cart.js that a successful add issued, and it carries the cart
\* that GET fetched, which holds the added item; a failed add neither
\* dispatches an event nor asks for one; a failed cart fetch dispatches no
\* event, shows no error and leaves the popup, the drawer and the drawer's
\* own request as they are.
C25_CartEventOnlyAfterSuccessfulAdd ==
    [][ /\ Count(pending', "cartEvent") > Count(pending, "cartEvent") => AddSucceeded(lastOp')
        /\ cartUpdate' # NoEvent =>
              /\ lastOp'.request.kind = "cartEvent"
              /\ Count(pending, "cartEvent") = Count(pending', "cartEvent") + 1
              /\ cartUpdate'.cart = Cart(serverCart')
              /\ cartUpdate'.itemCount = cartUpdate'.cart.item_count
              /\ cartUpdate'.cart.item_count >= 1
        /\ AddFailed(lastOp') =>
              /\ cartUpdate' = NoEvent
              /\ Count(pending', "cartEvent") = Count(pending, "cartEvent")
        /\ FailedCartFetch(lastOp') =>
              /\ cartUpdate' = NoEvent
              /\ toasts' = << >>
              /\ Count(pending', "cartDrawer") = Count(pending, "cartDrawer")
              /\ UNCHANGED <<popupActive, cartDrawer, bodyOverflow, serverCart>>
      ]_vars

\* ---------------------------------------------------------------- C26
SettlesProductRequest(op) == op.name \in {"loadProduct:ok", "loadProduct:failed"}

\* C26: the popup is opened only by the step in which a product request
\* that was in flight settles (with a product or with a failure); the click
\* itself opens nothing and leaves currentProduct and the selection alone,
\* and as long as the request stays in flight nothing but its answer
\* changes currentProduct, and nothing but its answer or an option click
\* changes the selection.
C26_PopupOpensOnlyAfterRequestSettled ==
    [][ /\ (popupActive' /\ ~popupActive) =>
              /\ SettlesProductRequest(lastOp')
              /\ BagIn(lastOp'.request, pending)
              /\ Count(pending', "product") = Count(pending, "product") - 1
        /\ lastOp'.name = "handleHotspotClick" =>
              /\ Count(pending', "product") = Count(pending, "product") + 1
              /\ UNCHANGED <<popupActive, currentProduct, selectedVariants, popupContent>>
        /\ currentProduct' # currentProduct => lastOp'.name = "loadProduct:ok"
        /\ selectedVariants' # selectedVariants =>
              lastOp'.name \in {"loadProduct:ok", "handleVariantSelection"}
      ]_vars

\* a hotspot was clicked, its request is in flight and nothing has opened
W26_ClickedAndWaiting ==
    /\ lastOp.name = "handleHotspotClick"
    /\ Count(pending, "product") = 1
    /\ ~popupActive
    /\ currentProduct = NoProduct
    /\ selectedVariants = EmptySelection

\* ---------------------------------------------------------------- C27
LegacyWithVariants(product) ==
    /\ product # NoProduct
    /\ UsesLegacyOptions(product)
    /\ HasVariantsArray(product)
    /\ Len(product.variants) >= 1

\* C27: once a legacy-schema product with at least one variant is loaded,
\* whatever enabled option buttons are clicked, getSelectedVariant finds a
\* variant for the selection.
C27_LegacySelectionAlwaysResolves ==
    LegacyWithVariants(currentProduct) =>
        getSelectedVariant(currentProduct, selectedVariants) # NoVariant

\* an option click moved a legacy product off its initial selection while
\* another button was disabled, and the selection still resolves
W27_LegacyClickedPastDisabled ==
    /\ LegacyWithVariants(currentProduct)
    /\ lastOp.name = "handleVariantSelection"
    /\ selectedVariants # initializeVariants(currentProduct)
    /\ popupContent # NoRender
    /\ \E j \in 1..Len(popupContent.buttons) : popupContent.buttons[j].disabled
    /\ getSelectedVariant(currentProduct, selectedVariants) # NoVariant

\* ---------------------------------------------------------------- C28
\* C28: right after a product that exposes options and has an available
\* variant was loaded, the variant resolved from the initial selection is
\* available, and the popup rendered by the load carries that variant's id
\* on an enabled add-to-cart button.
C28_InitialVariantAvailable ==
    (/\ lastOp.name = "loadProduct:ok"
     /\ ExposesOptions(currentProduct)
     /\ HasAvailableVariant(currentProduct)) =>
        LET variant == getSelectedVariant(currentProduct, selectedVariants)
        IN  /\ variant # NoVariant
            /\ variant.available
            /\ popupContent # NoRender
            /\ popupContent.product = currentProduct
            /\ popupContent.variantId = variant.id
            /\ ~popupContent.addToCartDisabled

\* a product whose first variant is sold out and whose last one is not was
\* loaded: the button is enabled for a later variant
W28_LoadedPastSoldOutVariant ==
    /\ lastOp.name = "loadProduct:ok"
    /\ ExposesOptions(currentProduct)
    /\ HasAvailableVariant(currentProduct)
    /\ ~currentProduct.variants[1].available
    /\ popupContent # NoRender
    /\ ~popupContent.addToCartDisabled
    /\ popupContent.variantId >= 2

\* ---------------------------------------------------------------- C29
\* the add-to-cart button and the price on screen are those of the variant
\* getSelectedVariant resolves from the widget's state
PopupMatchesState ==
    /\ popupContent # NoRender
    /\ popupContent.product = currentProduct
    /\ LET variant == getSelectedVariant(currentProduct, selectedVariants)
       IN  IF variant = NoVariant
           THEN /\ popupContent.variantId = 0
                /\ popupContent.addToCartDisabled
                /\ popupContent.price = formatPrice(currentProduct.price)
           ELSE /\ popupContent.variantId = variant.id
                /\ popupContent.addToCartDisabled = ~variant.available
                /\ popupContent.price = formatPrice(variant.price)

\* C29 as stated: after every product load that stored a product and
\* after every option click, the popup shows the variant id, the enabled
\* flag and the price of the variant resolved from currentProduct and the
\* selection; and the variant an add-to-cart click posts is the one on the
\* popup's enabled button at the moment of the click.
C29_PopupMatchesState ==
    [][ /\ lastOp'.name \in {"loadProduct:ok", "handleVariantSelection"}
              => PopupMatchesState'
        /\ lastOp'.name = "handleAddToCart" =>
              \A r \in BagToSet(pending') :
                  CopiesIn(r, pending') > CopiesIn(r, pending) =>
                      /\ r.kind = "add"
                      /\ popupContent # NoRender
                      /\ popupContent.product = currentProduct
                      /\ r.variant.id = popupContent.variantId
                      /\ ~popupContent.addToCartDisabled
      ]_vars

\* ---------------------------------------------------------------- C30
\* the gallery positions whose image carries the variant's image id
GalleryMatches(product, variant) ==
    IF variant = NoVariant \/ variant.featured_image_id = 0 THEN {}
    ELSE { i \in 1..Len(product.images) : product.images[i].id = variant.featured_image_id }

HasOwnImage(variant) == variant # NoVariant /\ variant.featured_image # NoImage

\* C30: for a loaded product and each of its variants, and for no variant
\* at all, getProductImage is the variant's own image if it has one; else
\* the first gallery image carrying the variant's image id if there is
\* one; else the product's featured image if it has one; else the first
\* gallery image if the gallery is not empty; else the placeholder; it is
\* never empty, and the popup shows the image picked for the resolved
\* variant.
C30_ImagePriority ==
    (currentProduct # NoProduct /\ HasVariantsArray(currentProduct)) =>
        /\ \A variant \in { currentProduct.variants[i] : i \in 1..Len(currentProduct.variants) }
                          \cup {NoVariant} :
              LET image   == getProductImage(currentProduct, variant)
                  matches == GalleryMatches(currentProduct, variant)
              IN  /\ image # NoImage
                  /\ HasOwnImage(variant) => image = variant.featured_image
                  /\ (~HasOwnImage(variant) /\ matches # {})
                        => image = currentProduct.images[Lowest(matches)].src
                  /\ (~HasOwnImage(variant) /\ matches = {}
                      /\ currentProduct.featured_image # NoImage)
                        => image = currentProduct.featured_image
                  /\ (~HasOwnImage(variant) /\ matches = {}
                      /\ currentProduct.featured_image = NoImage
                      /\ Len(currentProduct.images) > 0)
                        => image = currentProduct.images[1].src
                  /\ (~HasOwnImage(variant) /\ matches = {}
                      /\ currentProduct.featured_image = NoImage
                      /\ Len(currentProduct.images) = 0)
                        => image = PlaceholderImage
        /\ (popupContent # NoRender /\ popupContent.product = currentProduct) =>
              popupContent.image
                  = getProductImage(currentProduct,
                                    getSelectedVariant(currentProduct, selectedVariants))

\* an option click resolved a variant without an image of its own whose
\* image id names the second gallery image, and the popup shows that image
\* although the product has a featured image
W30_GalleryImageById ==
    /\ lastOp.name = "handleVariantSelection"
    /\ popupContent # NoRender
    /\ LET variant == getSelectedVariant(currentProduct, selectedVariants)
       IN  /\ variant # NoVariant
           /\ ~HasOwnImage(variant)
           /\ variant.featured_image_id = 2
           /\ currentProduct.featured_image # NoImage
           /\ Len(currentProduct.images) = 2
           /\ currentProduct.images[2].id = 2
           /\ currentProduct.images[1].id = 1
           /\ popupContent.image = currentProduct.images[2].src

====
